---- MODULE Spec2Model ----
(***************************************************************************)
(* json-walker: the byte cursor, the token extractors, the stack automaton *)
(* (parser_core.rs) and the navigation layer (json_walker.rs).             *)
(*                                                                         *)
(* Bytes are one-character strings.  A level is kept in half units         *)
(* (level 1.5 is the integer 3), so that the f32 arithmetic of the source, *)
(* which only ever meets multiples of 0.5, is exact integer arithmetic.    *)
(* Sequences are 1-based: a stack index of the source is the index here    *)
(* minus one.                                                              *)
(***************************************************************************)
EXTENDS Integers, Sequences, FiniteSets, TLC

VARIABLES
    doc,        \* the document the input text was written from (a tree)
    ws,         \* the number of blanks the text has around each token
    toks,       \* the tokens of the document, each with its offset in the text
    bytes,      \* StringReader.bytes: the input text
    pos,        \* StringReader.pos: number of bytes handed out so far
    next_byte,  \* Parser.next_byte: the one-byte lookahead
    stack,      \* Parser.stack
    fault,      \* "none", or how the session ended: "panic", "hang"
    call,       \* the last call of the public surface: [op, arg]
    res,        \* what that call returned
    pre,        \* the parser as it was when that call was made
    items       \* results of the calls so far while all were next_item

vars == <<doc, ws, toks, bytes, pos, next_byte, stack, fault, call, res, pre, items>>

-----------------------------------------------------------------------------
(* Bounds of the model *)

MaxNodes == 3      \* nodes (scalars and containers) of a generated document
MaxWs == 1         \* whitespace bytes written between two tokens

-----------------------------------------------------------------------------
(* lib.rs *)

NIL == "NIL"
ROOT == <<"#">>

Digits == {"0", "1", "2", "3", "4", "5", "6", "7", "8", "9"}

is_ascii_whitespace(c) == c \in {" ", "\t", "\n", "\f", "\r"}

is_ascii_digit(c) == c \in Digits

NULL == <<"n", "u", "l", "l">>
TRUE_ == <<"t", "r", "u", "e">>
FALSE_ == <<"f", "a", "l", "s", "e">>

-----------------------------------------------------------------------------
(* The parser as a value: the fields of Parser and of its reader *)

Parser(ps, nb, st, f) == [pos |-> ps, next_byte |-> nb, stack |-> st, fault |-> f]

Cur == Parser(pos, next_byte, stack, fault)

Panics(p) == [p EXCEPT !.fault = "panic"]

Hangs(p) == [p EXCEPT !.fault = "hang"]

Ok(p) == p.fault = "none"

NoItem == [t |-> "None", ty |-> "None", txt |-> <<>>]

NoneItem(c) == [t |-> "None", ty |-> "None", txt |-> <<c>>]

KeyItem(i) == [t |-> "Key", ty |-> i.ty, txt |-> i.txt]

ValueItem(i) == [t |-> "Value", ty |-> i.ty, txt |-> i.txt]

Out(p, i) == [p |-> p, item |-> i]

-----------------------------------------------------------------------------
(* Byte cursor *)

\* on_none_input: the reader is exhausted
on_none_input(p) ==
    IF Len(p.stack) > 2 THEN Panics(p) ELSE [p EXCEPT !.next_byte = NIL]

\* next_byte / next_byte_with_memory: refill the lookahead from the reader
next_fn(p) ==
    IF p.pos < Len(bytes)
    THEN [p EXCEPT !.next_byte = bytes[p.pos + 1], !.pos = p.pos + 1]
    ELSE on_none_input(p)

\* next: hand out the lookahead (the caller reads p.next_byte first)
next(p) == IF Ok(p) THEN next_fn(p) ELSE p

RECURSIVE next_no_white_space(_)
next_no_white_space(p) ==
    IF ~Ok(p) THEN p
    ELSE LET skip(q) == IF Ok(q) /\ is_ascii_whitespace(q.next_byte)
                        THEN next_no_white_space(q)
                        ELSE q
         IN skip(next_fn(p))

-----------------------------------------------------------------------------
(* Token extractors *)

RECURSIVE extract_string_loop_unskipped(_, _)
\* the lookahead is left on the byte after the closing quote
extract_string_loop_unskipped(p, result) ==
    LET c == p.next_byte
        escaped(q, r) ==
            IF ~Ok(r) THEN Out(r, NoItem)
            ELSE extract_string_loop_unskipped(r, Append(result, q.next_byte))
        body(q) ==
            IF ~Ok(q) THEN Out(q, NoItem)
            ELSE IF c = NIL THEN Out(Hangs(q), NoItem)
            ELSE IF c = "\\" THEN escaped(q, next(q))
            ELSE IF c = "\"" THEN Out(q, [ty |-> "Str", txt |-> result])
            ELSE extract_string_loop_unskipped(q, Append(result, c))
    IN body(next(p))

RECURSIVE extract_string_loop_verbatim(_, _)
\* the backslash copied along with the byte after it
extract_string_loop_verbatim(p, result) ==
    LET c == p.next_byte
        escaped(q, r) ==
            IF ~Ok(r) THEN Out(r, NoItem)
            ELSE extract_string_loop_verbatim(r, Append(Append(result, c), q.next_byte))
        body(q) ==
            IF ~Ok(q) THEN Out(q, NoItem)
            ELSE IF c = NIL THEN Out(Hangs(q), NoItem)
            ELSE IF c = "\\" THEN escaped(q, next(q))
            ELSE IF c = "\""
                 THEN Out(IF is_ascii_whitespace(q.next_byte)
                          THEN next_no_white_space(q) ELSE q,
                          [ty |-> "Str", txt |-> result])
            ELSE extract_string_loop_verbatim(q, Append(result, c))
    IN body(next(p))

RECURSIVE extract_string_loop(_, _)
extract_string_loop(p, result) ==
    LET c == p.next_byte
        escaped(q, r) ==
            IF ~Ok(r) THEN Out(r, NoItem)
            ELSE extract_string_loop(r, Append(result, q.next_byte))
        body(q) ==
            IF ~Ok(q) THEN Out(q, NoItem)
            ELSE IF c = NIL THEN Out(Hangs(q), NoItem)
            ELSE IF c = "\\" THEN escaped(q, next(q))
            ELSE IF c = "\""
                 THEN Out(IF is_ascii_whitespace(q.next_byte)
                          THEN next_no_white_space(q) ELSE q,
                          [ty |-> "Str", txt |-> result])
            ELSE extract_string_loop(q, Append(result, c))
    IN body(next(p))

extract_string(p) == extract_string_loop(p, <<>>)

RECURSIVE extract_number_loop_lax(_, _, _, _)
\* a run taken as it ends, whatever its last byte is
extract_number_loop_lax(p, result, d, last_digit_index) ==
    LET c == p.next_byte
        dot(q) ==
            IF ~Ok(q) THEN Out(q, NoItem)
            ELSE extract_number_loop_lax(q, Append(result, c), d + 1, last_digit_index)
        digit(q) ==
            IF ~Ok(q) THEN Out(q, NoItem)
            ELSE extract_number_loop_lax(q, Append(result, c), d, Len(result) + 1)
    IN IF c = "."
       THEN IF d >= 1 THEN Out(Panics(p), NoItem) ELSE dot(next(p))
       ELSE IF is_ascii_digit(c) THEN digit(next(p))
       ELSE Out(p, [ty |-> IF d = 0 THEN "Int" ELSE "Float", txt |-> result])

RECURSIVE extract_number_loop(_, _, _, _)
extract_number_loop(p, result, d, last_digit_index) ==
    LET c == p.next_byte
        dot(q) ==
            IF ~Ok(q) THEN Out(q, NoItem)
            ELSE extract_number_loop(q, Append(result, c), d + 1, last_digit_index)
        digit(q) ==
            IF ~Ok(q) THEN Out(q, NoItem)
            ELSE extract_number_loop(q, Append(result, c), d, Len(result) + 1)
    IN IF c = "."
       THEN IF d >= 1 THEN Out(Panics(p), NoItem) ELSE dot(next(p))
       ELSE IF is_ascii_digit(c) THEN digit(next(p))
       ELSE IF Len(result) # last_digit_index \/ c = "-" \/ c = "+"
            THEN Out(Panics(p), NoItem)
            ELSE Out(p, [ty |-> IF d = 0 THEN "Int" ELSE "Float",
                         txt |-> result])

RECURSIVE extract_keyword_loop(_, _, _, _, _)
extract_keyword_loop(p, result, d, expected_word, value_type) ==
    IF d + 1 >= Len(expected_word)
    THEN Out(p, [ty |-> value_type, txt |-> result])
    ELSE LET c == p.next_byte
             body(q) ==
                 IF ~Ok(q) THEN Out(q, NoItem)
                 ELSE IF c # expected_word[d + 2] THEN Out(Panics(q), NoItem)
                 ELSE extract_keyword_loop(q, Append(result, c), d + 1,
                                           expected_word, value_type)
         IN body(next(p))

extract_word(p, c) ==
    LET trailing(o) ==
            IF Ok(o.p) /\ is_ascii_whitespace(o.p.next_byte)
            THEN Out(next_no_white_space(o.p), o.item)
            ELSE o
    IN trailing(IF c = "+" \/ c = "-" \/ is_ascii_digit(c)
                THEN extract_number_loop(p, <<c>>, 0,
                         IF c # "+" /\ c # "-" THEN 1 ELSE -1)
                ELSE IF c = NULL[1]
                     THEN extract_keyword_loop(p, <<c>>, 0, NULL, "Null")
                ELSE IF c = TRUE_[1]
                     THEN extract_keyword_loop(p, <<c>>, 0, TRUE_, "Bool")
                ELSE IF c = FALSE_[1]
                     THEN extract_keyword_loop(p, <<c>>, 0, FALSE_, "Bool")
                ELSE Out(Panics(p), NoItem))

-----------------------------------------------------------------------------
(* Stack automaton *)

StackItem(ex, key, level, nth, symbol) ==
    [next_executor |-> ex, key |-> key, level |-> level, nth |-> nth,
     symbol |-> symbol]

\* (last_level + 1).floor(), in half units
new_open_brace_stack_item(last_level) ==
    StackItem("open_brace_start_state", <<>>, 2 * ((last_level + 2) \div 2), 0, "{")

\* an array frame one level above the frame beneath it, not rounded down
new_open_square_stack_item_plain(key, last_level) ==
    StackItem("open_square_start_state", key, last_level + 2, 0, "[")

new_open_square_stack_item(key, last_level) ==
    StackItem("open_square_start_state", key, 2 * ((last_level + 2) \div 2), 0, "[")

\* a pending-value frame at the level of its object
new_colon_stack_item_flat(key, last_level) ==
    StackItem("colon_start_state", key, last_level, 0, ":")

\* last_level + 0.5, in half units
new_colon_stack_item(key, last_level) ==
    StackItem("colon_start_state", key, last_level + 1, 0, ":")

Remove(s, i) == SubSeq(s, 1, i - 1) \o SubSeq(s, i + 1, Len(s))

Pop(s) == SubSeq(s, 1, Len(s) - 1)

SetExecutor(p, i, ex) == [p EXCEPT !.stack[i].next_executor = ex]

Push(p, frame) == [p EXCEPT !.stack = Append(p.stack, frame)]

\* the unexpected byte passed over
pass_over(p, current_byte) == Out(p, NoneItem(current_byte))

\* panic: the unexpected byte
panic(p, current_byte) == Out(Panics(p), NoItem)

\* TextItem::Value(..) around an extracted token
AsValue(o) == Out(o.p, ValueItem(o.item))

RECURSIVE execute(_, _, _)

\* pop then execute top
pop_stack(p, top_index) ==
    LET q == [p EXCEPT !.stack = Remove(p.stack, top_index)]
        i == top_index - 1
    IN IF i < 1 \/ i > Len(q.stack) THEN Panics(q)
       ELSE execute(q, i, NIL).p

\* the pending-value frame gives its place to the container that opens
colon_start_state_replaced(p, top_index, current_byte) ==
    LET top == p.stack[top_index]
        popped == [p EXCEPT !.stack = Pop(p.stack)]
    IN CASE current_byte = "\"" -> AsValue(extract_string(popped))
         [] current_byte = "{" ->
              Out(Push(popped, new_open_brace_stack_item(top.level)),
                  NoneItem(current_byte))
         [] current_byte = "[" ->
              Out(Push(popped, new_open_square_stack_item(top.key, top.level)),
                  NoneItem(current_byte))
         [] current_byte \in {"}", "]", ",", ":"} -> panic(p, current_byte)
         [] OTHER -> AsValue(extract_word(popped, current_byte))

colon_start_state(p, top_index, current_byte) ==
    LET top == p.stack[top_index]
    IN CASE current_byte = "\"" ->
              AsValue(extract_string([p EXCEPT !.stack = Pop(p.stack)]))
         [] current_byte = "{" ->
              Out(Push(SetExecutor(p, top_index, "colon_after_return_state"),
                       new_open_brace_stack_item(top.level)),
                  NoneItem(current_byte))
         [] current_byte = "[" ->
              Out(Push(SetExecutor(p, top_index, "colon_after_return_state"),
                       new_open_square_stack_item(top.key, top.level)),
                  NoneItem(current_byte))
         [] current_byte \in {"}", "]", ",", ":"} -> panic(p, current_byte)
         [] OTHER ->
              AsValue(extract_word([p EXCEPT !.stack = Pop(p.stack)], current_byte))

\* the pending-value frame kept when its container has closed
colon_after_return_state_kept(p, top_index, current_byte) ==
    Out(p, NoneItem(current_byte))

colon_after_return_state(p, top_index, current_byte) ==
    Out([p EXCEPT !.stack = Remove(p.stack, top_index)], NoneItem(current_byte))

open_brace_start_state(p, top_index, current_byte) ==
    CASE current_byte = "\"" ->
           LET key(o) ==
                   IF ~Ok(o.p) THEN o
                   ELSE Out([o.p EXCEPT
                               !.stack[top_index].next_executor = "open_brace_after_key_state",
                               !.stack[top_index].key = o.item.txt],
                            KeyItem(o.item))
           IN key(extract_string(p))
      [] current_byte = "}" ->
           Out(pop_stack(p, top_index), NoneItem(current_byte))
      [] OTHER -> panic(p, current_byte)

open_brace_after_key_state(p, top_index, current_byte) ==
    LET top == p.stack[top_index]
    IN CASE current_byte = ":" ->
              Out(Push(SetExecutor(p, top_index, "open_brace_after_colon_state"),
                       new_colon_stack_item(top.key, top.level)),
                  NoneItem(current_byte))
         [] OTHER -> panic(p, current_byte)

open_brace_after_colon_state(p, top_index, current_byte) ==
    CASE current_byte = "}" ->
           Out(pop_stack(p, top_index), NoneItem(current_byte))
      [] current_byte = "," ->
           Out([p EXCEPT
                  !.stack[top_index].next_executor = "open_brace_start_state",
                  !.stack[top_index].nth = @ + 1],
               NoneItem(current_byte))
      [] OTHER -> panic(p, current_byte)

open_square_start_state(p, top_index, current_byte) ==
    LET top == p.stack[top_index]
    IN CASE current_byte = "\"" ->
              AsValue(extract_string(
                          SetExecutor(p, top_index,
                                      "open_square_after_single_value_state")))
         [] current_byte = "{" ->
              Out(Push(SetExecutor(p, top_index, "open_square_after_return"),
                       new_open_brace_stack_item(top.level)),
                  NoneItem(current_byte))
         [] current_byte = "[" ->
              Out(Push(SetExecutor(p, top_index, "open_square_after_return"),
                       new_open_square_stack_item(top.key, top.level)),
                  NoneItem(current_byte))
         [] current_byte = "]" ->
              Out(pop_stack(p, top_index), NoneItem(current_byte))
         [] current_byte \in {",", ":", "}"} -> panic(p, current_byte)
         [] OTHER ->
              AsValue(extract_word(
                          SetExecutor(p, top_index,
                                      "open_square_after_single_value_state"),
                          current_byte))

\* the comma of an array that does not count
open_square_after_single_value_state_uncounted(p, top_index, current_byte) ==
    CASE current_byte = "]" ->
           Out(pop_stack(p, top_index), NoneItem(current_byte))
      [] current_byte = "," ->
           Out(SetExecutor(p, top_index, "open_square_start_state"),
               NoneItem(current_byte))
      [] OTHER -> panic(p, current_byte)

\* '}' ends the array as ']' does
open_square_after_single_value_state_either(p, top_index, current_byte) ==
    CASE current_byte \in {"]", "}"} ->
           Out(pop_stack(p, top_index), NoneItem(current_byte))
      [] current_byte = "," ->
           Out([p EXCEPT
                  !.stack[top_index].next_executor = "open_square_start_state",
                  !.stack[top_index].nth = @ + 1],
               NoneItem(current_byte))
      [] OTHER -> panic(p, current_byte)

open_square_after_single_value_state(p, top_index, current_byte) ==
    CASE current_byte = "]" ->
           Out(pop_stack(p, top_index), NoneItem(current_byte))
      [] current_byte = "," ->
           Out([p EXCEPT
                  !.stack[top_index].next_executor = "open_square_start_state",
                  !.stack[top_index].nth = @ + 1],
               NoneItem(current_byte))
      [] OTHER -> panic(p, current_byte)

open_square_after_return(p, top_index, current_byte) ==
    Out(SetExecutor(p, top_index, "open_square_after_single_value_state"),
        NoneItem(current_byte))

\* (parser.stack[i].next_executor)(parser, i, c): the frame's transition
execute(p, top_index, c) ==
    LET ex == p.stack[top_index].next_executor
    IN CASE ex = "colon_start_state" -> colon_start_state(p, top_index, c)
         [] ex = "colon_after_return_state" -> colon_after_return_state(p, top_index, c)
         [] ex = "open_brace_start_state" -> open_brace_start_state(p, top_index, c)
         [] ex = "open_brace_after_key_state" -> open_brace_after_key_state(p, top_index, c)
         [] ex = "open_brace_after_colon_state" -> open_brace_after_colon_state(p, top_index, c)
         [] ex = "open_square_start_state" -> open_square_start_state(p, top_index, c)
         [] ex = "open_square_after_single_value_state" ->
              open_square_after_single_value_state(p, top_index, c)
         [] ex = "open_square_after_return" -> open_square_after_return(p, top_index, c)

\* get_stack_top_index: the index of the top frame; an empty stack is a fault
get_stack_top_index(p) == Len(p.stack)

walk_forward(p) ==
    IF ~Ok(p) THEN Out(p, NoItem)
    ELSE LET c == p.next_byte
             done(o) == IF Ok(o.p) THEN o ELSE Out(o.p, NoItem)
             step(q) ==
                 IF ~Ok(q) THEN Out(q, NoItem)
                 ELSE IF Len(q.stack) = 0 THEN Out(Panics(q), NoItem)
                 ELSE done(execute(q, get_stack_top_index(q), c))
         IN step(next_no_white_space(p))

\* get_current_level: -1.0 on an empty stack
get_current_level(p) ==
    IF Len(p.stack) = 0 THEN -2 ELSE p.stack[Len(p.stack)].level

-----------------------------------------------------------------------------
(* Documents: the trees the input texts are written from.  A node is a     *)
(* scalar (its type and the bytes of its token; for a string the bytes     *)
(* between the quotes), an array (its elements) or an object (its members  *)
(* in the order they are written).                                         *)

Scalar(ty, txt) == [k |-> "S", ty |-> ty, txt |-> txt, el |-> <<>>]

Arr(el) == [k |-> "A", ty |-> "Arr", txt |-> <<>>, el |-> el]

Obj(mem) == [k |-> "O", ty |-> "Obj", txt |-> <<>>, el |-> mem]

Mem(key, val) == [key |-> key, val |-> val]

Num(txt) == Scalar("Int", txt)

Null == Scalar("Null", NULL)

True == Scalar("Bool", TRUE_)

Str(txt) == Scalar("Str", txt)

Quoted(txt) == <<"\"">> \o txt \o <<"\"">>

\* The tokens of a node in document order.  `at` is the path of the node a
\* token belongs to (member indices from the root); `lvl` is the container
\* depth the token is written at, in half units (its container's level).
Tok(role, ty, txt, src, at, lvl) ==
    [role |-> role, ty |-> ty, txt |-> txt, src |-> src, at |-> at, lvl |-> lvl]

RECURSIVE Toks(_, _, _)
RECURSIVE MemberToks(_, _, _, _)

MemberToks(n, at, lvl, i) ==
    IF i > Len(n.el) THEN <<>>
    ELSE (IF i > 1 THEN <<Tok("comma", "None", <<",">>, <<",">>, at \o <<i>>, lvl)>>
          ELSE <<>>)
         \o (IF n.k = "O"
             THEN <<Tok("key", "Str", n.el[i].key, Quoted(n.el[i].key), at \o <<i>>, lvl),
                    Tok("colon", "None", <<":">>, <<":">>, at \o <<i>>, lvl)>>
                  \o Toks(n.el[i].val, at \o <<i>>, lvl)
             ELSE Toks(n.el[i], at \o <<i>>, lvl))
         \o MemberToks(n, at, lvl, i + 1)

Toks(n, at, lvl) ==
    IF n.k = "S"
    THEN <<Tok("value", n.ty, n.txt,
               IF n.ty = "Str" THEN Quoted(n.txt) ELSE n.txt, at, lvl)>>
    ELSE LET open == IF n.k = "O" THEN "{" ELSE "["
             close == IF n.k = "O" THEN "}" ELSE "]"
         IN <<Tok("open", "None", <<open>>, <<open>>, at, lvl)>>
            \o MemberToks(n, at, lvl + 2, 1)
            \o <<Tok("close", "None", <<close>>, <<close>>, at, lvl)>>

Tokens(d) == Toks(d, <<>>, 0)

RECURSIVE Pad(_)
Pad(n) == IF n = 0 THEN <<>> ELSE <<" ">> \o Pad(n - 1)

RECURSIVE Render(_, _, _)
Render(tk, w, i) ==
    IF i > Len(tk) THEN <<>> ELSE tk[i].src \o Pad(w) \o Render(tk, w, i + 1)

\* The text of a document with w blanks before, between and after its tokens
Text(d, w) == Pad(w) \o Render(Tokens(d), w, 1)

RECURSIVE StartOf(_, _, _)
\* the offset in the text of the first byte of token i
StartOf(tk, w, i) ==
    IF i = 1 THEN w ELSE StartOf(tk, w, i - 1) + Len(tk[i - 1].src) + w

\* the tokens of a document, each with the offset of its first byte
Located(d, w) ==
    LET tk == Tokens(d)
    IN [i \in 1..Len(tk) |->
           [role |-> tk[i].role, ty |-> tk[i].ty, txt |-> tk[i].txt,
            at |-> tk[i].at, lvl |-> tk[i].lvl, start |-> StartOf(tk, w, i)]]

-----------------------------------------------------------------------------
(* The documents of the model *)

A_ == <<"a">>
B_ == <<"b">>
Z_ == <<"z">>

Scalars == {Num(<<"1">>), Str(A_)}

GenKeys == {A_, B_}

RECURSIVE Gen(_, _, _)
RECURSIVE GenSeq(_, _, _)
RECURSIVE GenMem(_, _, _)

GenSeq(t, S, K) ==
    IF t = 0 THEN {<<>>}
    ELSE UNION {{<<x>> \o r : x \in Gen(n, S, K), r \in GenSeq(t - n, S, K)}
                : n \in 1..t}

GenMem(t, S, K) ==
    IF t = 0 THEN {<<>>}
    ELSE UNION {{<<Mem(key, x)>> \o r :
                   key \in K, x \in Gen(n, S, K), r \in GenMem(t - n, S, K)}
                : n \in 1..t}

\* every document of exactly n nodes over the scalars S and the keys K
Gen(n, S, K) ==
    (IF n = 1 THEN S ELSE {})
    \cup {Arr(e) : e \in GenSeq(n - 1, S, K)}
    \cup {Obj(m) : m \in GenMem(n - 1, S, K)}

Generated == UNION {Gen(n, Scalars, GenKeys) : n \in 1..MaxNodes}

Key(d) == <<"k", "e", "y">> \o d

\* json_walker.rs, test_next_item_by_level:
\* [{"key1":{"key4":100},"key2":10},[{"key1":{"key4":300},"key3":100}],"key1"]
LevelsJson ==
    Arr(<<Obj(<<Mem(Key(<<"1">>), Obj(<<Mem(Key(<<"4">>), Num(<<"1", "0", "0">>))>>)),
                Mem(Key(<<"2">>), Num(<<"1", "0">>))>>),
          Arr(<<Obj(<<Mem(Key(<<"1">>), Obj(<<Mem(Key(<<"4">>), Num(<<"3", "0", "0">>))>>)),
                      Mem(Key(<<"3">>), Num(<<"1", "0", "0">>))>>)>>),
          Str(Key(<<"1">>))>>)

\* {"a":{"b":{"a":1},"a":[{"b":1},"a"]},"b":{"a":1,"b":{}},"a":"b"}
NestedJson ==
    Obj(<<Mem(A_, Obj(<<Mem(B_, Obj(<<Mem(A_, Num(<<"1">>))>>)),
                        Mem(A_, Arr(<<Obj(<<Mem(B_, Num(<<"1">>))>>), Str(A_)>>))>>)),
          Mem(B_, Obj(<<Mem(A_, Num(<<"1">>)), Mem(B_, Obj(<<>>))>>)),
          Mem(A_, Str(B_))>>)

\* CORRECT_JSON of the tests, one member kept of each shape:
\* {"key1":null,"key2":true,"key7":{"key71":null,"key78":[null,{},[]],"key79":{}},
\*  "key8":[null,{"key81":null,"key89":{}},{},[]],"key9":{},"key10":[]}
CorrectJson ==
    Obj(<<Mem(Key(<<"1">>), Null),
          Mem(Key(<<"2">>), True),
          Mem(Key(<<"7">>),
              Obj(<<Mem(Key(<<"7", "1">>), Null),
                    Mem(Key(<<"7", "8">>), Arr(<<Null, Obj(<<>>), Arr(<<>>)>>)),
                    Mem(Key(<<"7", "9">>), Obj(<<>>))>>)),
          Mem(Key(<<"8">>),
              Arr(<<Null,
                    Obj(<<Mem(Key(<<"8", "1">>), Null),
                          Mem(Key(<<"8", "9">>), Obj(<<>>))>>),
                    Obj(<<>>),
                    Arr(<<>>)>>)),
          Mem(Key(<<"9">>), Obj(<<>>)),
          Mem(Key(<<"1", "0">>), Arr(<<>>))>>)

Docs == Generated \cup {LevelsJson, NestedJson, CorrectJson}

\* well-formed documents with strings whose first byte is a blank
TextScalars == {Num(<<"1">>), Str(<<" ", "a">>)}

TextKeys == {A_, <<" ", "b">>}

TextDocs == UNION {Gen(n, TextScalars, TextKeys) : n \in 1..MaxNodes}

-----------------------------------------------------------------------------
(* Construction *)

\* Parser::new: one pending-value frame for the root at level 0, then the
\* lookahead is moved to the first byte that is not whitespace
new ==
    next_no_white_space(
        Parser(0, NIL, <<new_colon_stack_item(ROOT, -1)>>, "none"))

-----------------------------------------------------------------------------
(* Results of the public surface *)

Res(k, v) == [k |-> k, v |-> v]

Item(i) == [ty |-> i.ty, txt |-> i.txt]

OkItem(i) == Res("Ok", Item(i))           \* Ok((type, text))

EOS == Res("EOS", <<>>)                   \* Err(Error::new_eos())

Fault(p) == Res("Fault", p.fault)         \* the call did not return

Ret(p, r) == [p |-> p, r |-> IF Ok(p) THEN r ELSE Fault(p)]

-----------------------------------------------------------------------------
(* The loops over the steps of the automaton.  A pass of a loop body either *)
(* ends the loop with the result of the call or leaves the parser to go on  *)
(* with.  Every pass that goes on has consumed a byte, so a loop makes no   *)
(* more passes than the text has bytes, plus the pass that meets the end.   *)

Done(o) == [done |-> TRUE, o |-> o]

Go(p) == [done |-> FALSE, o |-> Ret(p, EOS)]

RECURSIVE Upto(_, _, _)
\* at most n passes of Step from parser p
Upto(Step(_), p, n) ==
    IF n <= 1 THEN Step(p)
    ELSE LET rest(a) == IF a.done THEN a ELSE Upto(Step, a.o.p, n - n \div 2)
         IN rest(Upto(Step, p, n \div 2))

Loop(Step(_), p) ==
    LET end(a) == IF a.done THEN a.o ELSE Ret(Hangs(a.o.p), EOS)
    IN end(Upto(Step, p, Len(bytes) + 2))

-----------------------------------------------------------------------------
(* Level seeking *)

\* the pass with the test the source has commented out: no stop before a comma
seek_step_not_comma(p, target_level) ==
    IF p.next_byte = NIL THEN Done(Ret(p, Res("Bool", FALSE)))
    ELSE LET step(q) ==
                 IF ~Ok(q) THEN Done(Ret(q, EOS))
                 ELSE IF Len(q.stack) = 0 THEN Done(Ret(Panics(q), EOS))
                 ELSE IF q.stack[Len(q.stack)].level = target_level /\ q.next_byte # ","
                      THEN Done(Ret(q, Res("Bool", q.next_byte # "}" /\ q.next_byte # "]")))
                 ELSE Go(q)
         IN step(walk_forward(p).p)

\* one pass of the while loop of seek_by_level_offset
seek_step(p, target_level) ==
    IF p.next_byte = NIL THEN Done(Ret(p, Res("Bool", FALSE)))
    ELSE LET step(q) ==
                 IF ~Ok(q) THEN Done(Ret(q, EOS))
                 ELSE IF Len(q.stack) = 0 THEN Done(Ret(Panics(q), EOS))
                 ELSE IF q.stack[Len(q.stack)].level = target_level
                      THEN Done(Ret(q, Res("Bool", q.next_byte # "}" /\ q.next_byte # "]")))
                 ELSE Go(q)
         IN step(walk_forward(p).p)

seek_loop(p, target_level) == Loop(LAMBDA q : seek_step(q, target_level), p)

\* the target level is not compared with 1 before the walk
seek_by_level_offset_unguarded(p, target_level_offset) ==
    IF Len(p.stack) = 0 THEN Ret(Panics(p), EOS)
    ELSE seek_loop(p, p.stack[get_stack_top_index(p)].level + target_level_offset)

seek_by_level_offset(p, target_level_offset) ==
    IF Len(p.stack) = 0 THEN Ret(Panics(p), EOS)
    ELSE LET target_level == p.stack[get_stack_top_index(p)].level + target_level_offset
         IN IF target_level < 2 THEN Ret(p, Res("Bool", FALSE))
            ELSE seek_loop(p, target_level)

-----------------------------------------------------------------------------
(* Subtree materialization *)

Simple(i) == [c |-> "Simple", v |-> Item(i)]

Array(a) == [c |-> "Array", v |-> a]

Object(m) == [c |-> "Object", v |-> m]

\* an entry that is there is kept
insert_first(m, key, val) ==
    [x \in DOMAIN m \cup {key} |-> IF x \in DOMAIN m THEN m[x] ELSE val]

\* BTreeMap::insert
insert(m, key, val) == [x \in DOMAIN m \cup {key} |-> IF x = key THEN val ELSE m[x]]

EmptyMap == [x \in {} |-> <<>>]

Got(p, c) == [p |-> p, c |-> c]

RECURSIVE extract_current_value(_, _)
RECURSIVE extract_current_array(_, _, _)
RECURSIVE extract_current_object(_, _, _)

extract_current_value(p, top_index) ==
    IF ~Ok(p) THEN Got(p, <<>>)
    ELSE CASE p.next_byte = "[" ->
                extract_current_array(walk_forward(p).p, top_index + 1, <<>>)
           [] p.next_byte = "{" ->
                extract_current_object(walk_forward(p).p, top_index + 1, EmptyMap)
           [] OTHER ->
                LET simple(o) ==
                        IF ~Ok(o.p) THEN Got(o.p, <<>>)
                        ELSE IF o.item.t = "Value" THEN Got(o.p, Simple(o.item))
                        ELSE Got(Panics(o.p), <<>>)
                IN simple(walk_forward(p))

extract_current_array(p, top_index, a) ==
    IF ~Ok(p) THEN Got(p, <<>>)
    ELSE CASE p.next_byte = "," ->
                extract_current_array(walk_forward(p).p, top_index, a)
           [] p.next_byte = "]" -> Got(walk_forward(p).p, Array(a))
           [] OTHER ->
                LET element(g) ==
                        IF ~Ok(g.p) THEN g
                        ELSE extract_current_array(g.p, top_index, Append(a, g.c))
                IN element(extract_current_value(p, top_index))

\* extract_current_item: the next step must emit a key or a value
extract_current_item(p) ==
    LET item(o) == IF Ok(o.p) /\ o.item.t = "None" THEN Out(Panics(o.p), NoItem) ELSE o
    IN item(walk_forward(p))

extract_current_object(p, top_index, a) ==
    IF ~Ok(p) THEN Got(p, <<>>)
    ELSE IF p.next_byte = "}" THEN Got(walk_forward(p).p, Object(a))
    ELSE LET member(k, g) ==
                 IF ~Ok(g.p) THEN g
                 ELSE LET b == insert(a, k.item.txt, g.c)
                          q == walk_forward(g.p).p
                      IN CASE g.p.next_byte = "," ->
                                extract_current_object(q, top_index, b)
                           [] g.p.next_byte = "}" -> Got(q, Object(b))
                           [] OTHER -> Got(Panics(g.p), <<>>)
             key(k) ==
                 IF ~Ok(k.p) THEN Got(k.p, <<>>)
                 ELSE member(k, extract_current_value(walk_forward(k.p).p, top_index + 1))
         IN key(extract_current_item(p))

-----------------------------------------------------------------------------
(* Navigation layer (json_walker.rs) *)

\* one pass of the loop of next_item
next_item_step(p) ==
    IF p.next_byte = NIL THEN Done(Ret(p, EOS))
    ELSE LET step(o) ==
                 IF ~Ok(o.p) THEN Done(Ret(o.p, EOS))
                 ELSE IF o.item.t \in {"Key", "Value"} THEN Done(Ret(o.p, OkItem(o.item)))
                 ELSE Go(o.p)
         IN step(walk_forward(p))

next_item(p) == Loop(next_item_step, p)

\* one pass of the loop of next_key
next_key_step(p) ==
    IF p.next_byte = NIL THEN Done(Ret(p, EOS))
    ELSE LET step(o) ==
                 IF ~Ok(o.p) THEN Done(Ret(o.p, EOS))
                 ELSE IF o.item.t = "Key" THEN Done(Ret(o.p, OkItem(o.item)))
                 ELSE Go(o.p)
         IN step(walk_forward(p))

next_key(p) == Loop(next_key_step, p)

\* a search that stops at the first key whatever its name
next_key_by_name_any(p, name) == next_key(p)

\* one pass of the loop of next_key_by_name
next_key_by_name_step(p, name) ==
    LET match(key) ==
            IF Ok(key.p) /\ key.r.k = "Ok" /\ key.r.v.txt # name
            THEN Go(key.p)
            ELSE Done(key)
    IN match(next_key(p))

next_key_by_name(p, name) == Loop(LAMBDA q : next_key_by_name_step(q, name), p)

\* top_stack_level - top_stack_level.floor(), in half units
sibling_diff(level) == level - 2 * (level \div 2)

\* (top_stack_level + 1.0).floor() - top_stack_level
child_diff(level) == 2 * ((level + 2) \div 2) - level

\* (top_stack_level - 1.0).ceil() - top_stack_level
parent_diff(level) == 2 * ((level - 2 + 1) \div 2) - level

\* the next key is read though the seek reported that no more data follows
key_by_diff_unchecked(p, diff) ==
    IF p.next_byte # NIL
    THEN IF Len(p.stack) = 0 THEN Ret(Panics(p), EOS)
         ELSE LET found(s) == IF ~Ok(s.p) THEN s ELSE next_key(s.p)
              IN found(seek_by_level_offset(p, diff))
    ELSE Ret(p, EOS)

\* the body shared by next_sibling_key, next_child_key, next_key_from_parent
key_by_diff(p, diff) ==
    IF p.next_byte # NIL
    THEN IF Len(p.stack) = 0 THEN Ret(Panics(p), EOS)
         ELSE LET found(s) ==
                      IF ~Ok(s.p) THEN s
                      ELSE IF s.r.v THEN next_key(s.p)
                      ELSE Ret(s.p, EOS)
              IN found(seek_by_level_offset(p, diff))
    ELSE Ret(p, EOS)

\* the result of the seek is not looked at
next_sibling_key_unchecked(p) ==
    IF p.next_byte # NIL
    THEN LET found(q) == IF Ok(q.p) THEN next_key(q.p) ELSE q
         IN found(seek_by_level_offset(p, sibling_diff(get_current_level(p))))
    ELSE Ret(p, EOS)

next_sibling_key(p) ==
    key_by_diff(p, sibling_diff(get_current_level(p)))

\* the offset of next_sibling_key is used
next_child_key_as_sibling(p) ==
    key_by_diff(p, sibling_diff(get_current_level(p)))

\* (top_stack_level + 1.0).ceil() - top_stack_level
next_child_key_ceil(p) ==
    key_by_diff(p, 2 * ((get_current_level(p) + 2 + 1) \div 2) - get_current_level(p))

next_child_key(p) ==
    key_by_diff(p, child_diff(get_current_level(p)))

next_key_from_parent(p) ==
    key_by_diff(p, parent_diff(get_current_level(p)))

\* nothing is walked over before the value is read
walk_before_value_none(p) == p

\* the level of the top frame is not looked at
next_item_by_level_any(p, target_level) == next_item(p)

\* one pass of the loop of next_item_by_level
next_item_by_level_step(p, target_level) ==
    IF p.next_byte = NIL THEN Done(Ret(p, EOS))
    ELSE LET step(o) ==
                 IF ~Ok(o.p) THEN Done(Ret(o.p, EOS))
                 ELSE IF Len(o.p.stack) = 0 THEN Done(Ret(Panics(o.p), EOS))
                 ELSE IF /\ o.p.stack[Len(o.p.stack)].level = target_level
                         /\ o.item.t \in {"Key", "Value"}
                      THEN Done(Ret(o.p, OkItem(o.item)))
                 ELSE Go(o.p)
         IN step(walk_forward(p))

next_item_by_level(p, target_level) ==
    Loop(LAMBDA q : next_item_by_level_step(q, target_level), p)

\* CurrentState: what a predicate of a pattern is given about one frame
CurrentState(stack_item, item, is_key) ==
    [latest_key |-> stack_item.key, nth_occurrence |-> stack_item.nth,
     level |-> stack_item.level, current_item |-> item, is_key |-> is_key]

\* the closures of the tests and of a caller over the generated documents
Holds(pred, cs) ==
    CASE pred = "item_is_key1" -> cs.current_item.txt = Key(<<"1">>)
      [] pred = "level2_first" -> cs.level = 4 /\ cs.nth_occurrence = 0
      [] pred = "key1_level3" -> cs.latest_key = Key(<<"1">>) /\ cs.level = 6
      [] pred = "key4" -> cs.latest_key = Key(<<"4">>)
      [] pred = "item_is_a" -> cs.current_item.txt = A_
      [] pred = "key_a" -> cs.latest_key = A_
      [] pred = "first" -> cs.nth_occurrence = 0
      [] pred = "second" -> cs.nth_occurrence = 1

RECURSIVE match_frames_all(_, _, _, _, _, _)
\* the frames matched with the pending-value frames among them
match_frames_all(st, si, pattern, pat_index, item, is_key) ==
    IF si < 2 THEN [ok |-> FALSE, seen |-> <<>>]
    ELSE LET here == [pat |-> pat_index, frame |-> si]
             went(r) == [ok |-> r.ok, seen |-> <<here>> \o r.seen]
         IN IF ~Holds(pattern[pat_index], CurrentState(st[si], item, is_key))
            THEN [ok |-> FALSE, seen |-> <<here>>]
            ELSE IF pat_index = 1 THEN [ok |-> TRUE, seen |-> <<here>>]
            ELSE went(match_frames_all(st, si - 1, pattern, pat_index - 1, item, is_key))

RECURSIVE match_frames(_, _, _, _, _, _)
\* the for loop of next_item_by_pattern from frame si down to the frame
\* above the root: whether pattern[0] was reached and held, and the
\* predicates evaluated, each with the frame it was given
match_frames(st, si, pattern, pat_index, item, is_key) ==
    IF si < 2 THEN [ok |-> FALSE, seen |-> <<>>]
    ELSE IF st[si].symbol = ":"
         THEN match_frames(st, si - 1, pattern, pat_index, item, is_key)
    ELSE LET here == [pat |-> pat_index, frame |-> si]
             went(r) == [ok |-> r.ok, seen |-> <<here>> \o r.seen]
         IN IF ~Holds(pattern[pat_index], CurrentState(st[si], item, is_key))
            THEN [ok |-> FALSE, seen |-> <<here>>]
            ELSE IF pat_index = 1 THEN [ok |-> TRUE, seen |-> <<here>>]
            ELSE went(match_frames(st, si - 1, pattern, pat_index - 1, item, is_key))

\* one pass of the loop of next_item_by_pattern
next_item_by_pattern_step(p, pattern) ==
    IF p.next_byte = NIL THEN Done(Ret(p, EOS))
    ELSE LET step(o) ==
                 IF ~Ok(o.p) THEN Done(Ret(o.p, EOS))
                 ELSE IF o.item.t \notin {"Key", "Value"} THEN Go(o.p)
                 ELSE IF Len(o.p.stack) = 0 THEN Done(Ret(Panics(o.p), EOS))
                 ELSE IF match_frames(o.p.stack, Len(o.p.stack), pattern, Len(pattern),
                                      Item(o.item), o.item.t = "Key").ok
                      THEN Done(Ret(o.p, OkItem(o.item)))
                 ELSE Go(o.p)
         IN step(walk_forward(p))

next_item_by_pattern(p, pattern) ==
    Loop(LAMBDA q : next_item_by_pattern_step(q, pattern), p)

RECURSIVE fmt_usize(_)
\* an index written in decimal
fmt_usize(n) ==
    LET digit(d) == <<<<"0", "1", "2", "3", "4", "5", "6", "7", "8", "9">>[d + 1]>>
    IN IF n < 10 THEN digit(n) ELSE fmt_usize(n \div 10) \o digit(n % 10)

PathStart == [t |-> "Start", key |-> <<>>, nth |-> 0]

PathObject(key, nth) == [t |-> "Object", key |-> key, nth |-> nth]

PathArray(key, nth) == [t |-> "Array", key |-> key, nth |-> nth]

\* Display for PathItem
fmt(x) ==
    CASE x.t = "Start" -> ROOT
      [] x.t = "Object" -> <<"{">> \o x.key \o <<",">> \o fmt_usize(x.nth) \o <<"}">>
      [] x.t = "Array" -> <<"[">> \o x.key \o <<",">> \o fmt_usize(x.nth) \o <<"]">>

RECURSIVE get_path_from_all(_, _)
\* a path with an item for every frame, the pending-value frames too
get_path_from_all(st, i) ==
    IF i > Len(st) THEN <<>>
    ELSE (IF st[i].symbol = "[" THEN <<PathArray(st[i].key, st[i].nth)>>
          ELSE <<PathObject(st[i].key, st[i].nth)>>)
         \o get_path_from_all(st, i + 1)

RECURSIVE get_path_from(_, _)
\* the items of the frames i.. of the stack: none for a pending-value frame
get_path_from(st, i) ==
    IF i > Len(st) THEN <<>>
    ELSE (CASE st[i].symbol = "{" -> <<PathObject(st[i].key, st[i].nth)>>
            [] st[i].symbol = "[" -> <<PathArray(st[i].key, st[i].nth)>>
            [] OTHER -> <<>>)
         \o get_path_from(st, i + 1)

get_path(p) == <<PathStart>> \o get_path_from(p.stack, 1)

RECURSIVE join(_, _)
\* each item of the path followed by a slash
join(path, i) ==
    IF i > Len(path) THEN <<>> ELSE fmt(path[i]) \o <<"/">> \o join(path, i + 1)

get_path_string(p) == join(get_path(p), 1)

RECURSIVE walk_before_value(_)
walk_before_value(p) ==
    IF Ok(p) /\ (p.next_byte = ":" \/ p.next_byte = ","
                 \/ (Len(p.stack) > 0 /\ p.stack[Len(p.stack)].symbol = "{"))
    THEN walk_before_value(walk_forward(p).p)
    ELSE p

current_value_content(p) ==
    LET content(g) == Ret(g.p, Res("Content", g.c))
        value(q) ==
            IF ~Ok(q) THEN Ret(q, EOS)
            ELSE IF q.next_byte # NIL
                 THEN IF Len(q.stack) = 0 THEN Ret(Panics(q), EOS)
                      ELSE content(extract_current_value(q, get_stack_top_index(q)))
            ELSE Ret(q, EOS)
    IN value(walk_before_value(p))

\* move_n_element_forward(1)
move_n_element_forward(p) == Ret(walk_forward(p).p, Res("Unit", <<>>))

-----------------------------------------------------------------------------
(* Deserialization bridge (deserializer.rs): the accessors of a sequence   *)
(* and of a mapping.  An accessor is the level it recorded when its scope  *)
(* was opened; a seed is what the visitor reads an element as.             *)

\* Deserializer::move_forward: one step unless the input has ended
move_forward(p) ==
    IF ~Ok(p) THEN p
    ELSE IF p.next_byte # NIL THEN walk_forward(p).p
    ELSE p

\* Deserializer::next_item: the loop of the walker's next_item
Deserializer_next_item(p) == Loop(next_item_step, p)

\* one pass of the loop of move_to_scope; at the end of the input
\* move_forward does nothing and the loop does not end
move_to_scope_step(p) ==
    IF ~Ok(p) THEN Done(Ret(p, EOS))
    ELSE IF p.next_byte \in {"{", "["} THEN Done(Ret(p, Res("Unit", <<>>)))
    ELSE IF p.next_byte = NIL THEN Done(Ret(Hangs(p), EOS))
    ELSE Go(move_forward(p))

move_to_scope(p, desired_byte) ==
    LET at(o) == IF Ok(o.p) /\ o.p.next_byte = desired_byte
                 THEN move_forward(o.p) ELSE o.p
    IN at(Loop(move_to_scope_step, p))

\* the accessor: the level of the top frame when the scope has been opened
Accessor(q) == Ret(q, Res("Scope", [level |-> get_current_level(q)]))

SeqAccessor_new(p) == Accessor(move_to_scope(p, "["))

MapAccessor_new(p) == Accessor(move_to_scope(p, "{"))

\* what next_element_seed and next_key_seed answer
Element(working_level, out, v) ==
    Res("Element", [level |-> working_level, out |-> out, v |-> v])

\* seed.deserialize(de).map(Some) for a seed that reads a scalar
\* (deserialize_string: next_item) and one that reads nothing
\* (deserialize_unit)
deserialize(p, working_level, seed) ==
    IF seed = "unit" THEN Ret(p, Element(working_level, "Some", <<>>))
    ELSE LET some(o) ==
                 IF ~Ok(o.p) THEN o
                 ELSE IF o.r.k = "Ok"
                      THEN Ret(o.p, Element(working_level, "Some", o.r.v))
                 ELSE Ret(o.p, Element(working_level, "EOS", <<>>))
         IN some(Deserializer_next_item(p))

\* one pass of the inner loop: a step, then the levels are compared; at the
\* end of the input the step does nothing and the loop does not end
skip_step(p, working_level) ==
    LET moved(q) ==
            IF ~Ok(q) THEN Done(Ret(q, EOS))
            ELSE IF get_current_level(q) = working_level
                 THEN Done(Ret(q, Res("Unit", <<>>)))
            ELSE IF q.next_byte = NIL THEN Done(Ret(Hangs(q), EOS))
            ELSE Go(q)
    IN IF ~Ok(p) THEN Done(Ret(p, EOS)) ELSE moved(move_forward(p))

\* no step is taken when the levels are equal at a closing delimiter
handle_next_element_seed_step_unmoved(p, working_level, seed) ==
    IF ~Ok(p) THEN Done(Ret(p, EOS))
    ELSE IF p.next_byte \in {"]", "}"}
    THEN IF working_level = get_current_level(p)
         THEN Done(Ret(p, Element(working_level, "None", <<>>)))
         ELSE IF working_level < get_current_level(p)
         THEN Go(Loop(LAMBDA q : skip_step(q, working_level), p).p)
         ELSE Done(Ret(p, Element(working_level, "OOPS", <<>>)))
    ELSE Done(deserialize(p, working_level, seed))

\* one pass of the while loop of handle_next_element_seed
handle_next_element_seed_step(p, working_level, seed) ==
    IF ~Ok(p) THEN Done(Ret(p, EOS))
    ELSE IF p.next_byte \in {"]", "}"}
    THEN IF working_level = get_current_level(p)
         THEN Done(Ret(move_forward(p), Element(working_level, "None", <<>>)))
         ELSE IF working_level < get_current_level(p)
         THEN Go(Loop(LAMBDA q : skip_step(q, working_level), p).p)
         ELSE Done(Ret(p, Element(working_level, "OOPS", <<>>)))
    ELSE Done(deserialize(p, working_level, seed))

handle_next_element_seed(p, working_level, seed) ==
    Loop(LAMBDA q : handle_next_element_seed_step(q, working_level, seed), p)

-----------------------------------------------------------------------------
(* The session: a caller that constructs a walker over a document and      *)
(* then calls the public surface in any order.                             *)

NoCall == [op |-> "new", arg |-> <<>>]

\* the names a caller asks for: the keys of the document and one it lacks
Names(d) ==
    LET tk == Tokens(d)
    IN {tk[i].txt : i \in {j \in 1..Len(tk) : tk[j].role = "key"}} \cup {Z_}

\* level offsets a caller seeks by, in half units: -1.0, 0.0, 0.5, 1.0, 2.0
Offsets == {-2, 0, 1, 2, 4}

\* levels a caller asks items of, in half units: 1.0, 1.5, 2.0, 4.0
Levels == {2, 3, 4, 8}

\* the patterns a caller searches by: those of the tests
\* test_next_item_by_pattern_some_items_in_middle and
\* test_next_item_by_pattern_item_in_path, and patterns over the keys and
\* scalars of the generated documents
Patterns ==
    {<<"item_is_key1">>,
     <<"level2_first", "key1_level3", "key4">>,
     <<"item_is_a">>,
     <<"first", "key_a">>,
     <<"second", "first">>}

\* what a visitor reads an element as: a scalar, or nothing
Seeds == {"item", "unit"}

\* a session over the text of document d written with w blanks
Start(d, w) ==
        /\ doc = d
        /\ ws = w
        /\ toks = Located(d, w)
        /\ bytes = Text(d, w)
        /\ pos = new.pos
        /\ next_byte = new.next_byte
        /\ stack = new.stack
        /\ fault = new.fault
        /\ call = NoCall
        /\ res = Res("Unit", <<>>)
        /\ pre = new
        /\ items = [of |-> NoCall, got |-> <<>>]

Init == \E d \in Docs, w \in 0..MaxWs : Start(d, w)

\* a call of the public surface that ran as o == [p |-> parser after, r |-> result]
Do(op, arg, o) ==
    /\ fault = "none"
    /\ pos' = o.p.pos
    /\ next_byte' = o.p.next_byte
    /\ stack' = o.p.stack
    /\ fault' = o.p.fault
    /\ call' = [op |-> op, arg |-> arg]
    /\ res' = o.r
    /\ pre' = Cur
    /\ items' = IF items.of \in {NoCall, [op |-> op, arg |-> arg]}
                THEN [of |-> [op |-> op, arg |-> arg],
                      got |-> IF o.r.k = "Ok" THEN Append(items.got, o.r.v)
                              ELSE items.got]
                ELSE [of |-> [op |-> "mixed", arg |-> <<>>], got |-> <<>>]
    /\ UNCHANGED <<doc, ws, toks, bytes>>

NextItem == Do("next_item", <<>>, next_item(Cur))

NextKey == Do("next_key", <<>>, next_key(Cur))

NextKeyByName == \E name \in Names(doc) : Do("next_key_by_name", name, next_key_by_name(Cur, name))

NextSiblingKey == Do("next_sibling_key", <<>>, next_sibling_key(Cur))

NextChildKey == Do("next_child_key", <<>>, next_child_key(Cur))

NextKeyFromParent == Do("next_key_from_parent", <<>>, next_key_from_parent(Cur))

SeekByLevelOffset ==
    \E off \in Offsets : Do("seek_by_level_offset", off, seek_by_level_offset(Cur, off))

NextItemByLevel ==
    \E lv \in Levels : Do("next_item_by_level", lv, next_item_by_level(Cur, lv))

NextItemByPattern ==
    \E pattern \in Patterns :
        Do("next_item_by_pattern", pattern, next_item_by_pattern(Cur, pattern))

GetPathString == Do("get_path_string", <<>>, Ret(Cur, Res("Path", get_path_string(Cur))))

CurrentValueContent == Do("current_value_content", <<>>, current_value_content(Cur))

MoveNElementForward == Do("move_n_element_forward", <<>>, move_n_element_forward(Cur))

SeqAccess == Do("SeqAccessor_new", <<>>, SeqAccessor_new(Cur))

MapAccess == Do("MapAccessor_new", <<>>, MapAccessor_new(Cur))

\* the accessor that the last call opened or used is asked for an element
NextElementSeed ==
    /\ res.k \in {"Scope", "Element"}
    /\ \E seed \in Seeds :
           Do("handle_next_element_seed", [level |-> res.v.level, seed |-> seed],
              handle_next_element_seed(Cur, res.v.level, seed))

Next ==
    \/ NextItem
    \/ NextKey
    \/ NextKeyByName
    \/ NextSiblingKey
    \/ NextChildKey
    \/ NextKeyFromParent
    \/ SeekByLevelOffset
    \/ NextItemByLevel
    \/ NextItemByPattern
    \/ GetPathString
    \/ CurrentValueContent
    \/ MoveNElementForward
    \/ SeqAccess
    \/ MapAccess
    \/ NextElementSeed

Spec == Init /\ [][Next]_vars

\* the same caller over documents whose strings begin with whitespace
InitText == \E d \in TextDocs, w \in 0..MaxWs : Start(d, w)

SpecText == InitText /\ [][Next]_vars

\* parser_core.rs, incorrect_input_drop_key and the tests after it: {"key":123}
KeyJson == Obj(<<Mem(Key(<<>>), Num(<<"1", "2", "3">>))>>)

\* the documents a broken text is made of: the arrays and objects of the
\* generated documents with one name for every key, and the tests' document
BrokenDocs ==
    {d \in UNION {Gen(n, Scalars, {A_}) : n \in 1..MaxNodes} : d.k # "S"} \cup {KeyJson}

\* the text of a document cut after one of its tokens, the last excepted
Truncations(d) ==
    {SubSeq(Tokens(d), 1, n) : n \in 1..(Len(Tokens(d)) - 1)}

\* the key, the colon or the scalar value of a member of an object
MemberPart(tk, i) ==
    \/ tk[i].role \in {"key", "colon"}
    \/ tk[i].role = "value" /\ i > 1 /\ tk[i - 1].role = "colon"

\* the text of a document with one part of a member left out ({:123},
\* {"key"123}), or with a comma where the value of a member is ({"key":,})
Drops(d) ==
    LET tk == Tokens(d)
        parts == {i \in 1..Len(tk) : MemberPart(tk, i)}
        values == {i \in parts : tk[i].role = "value"}
    IN {Remove(tk, i) : i \in parts}
       \cup {[tk EXCEPT ![i] = Tok("comma", "None", <<",">>, <<",">>, tk[i].at, tk[i].lvl)]
              : i \in values}

\* a sequence of tokens, each with the offset of its first byte
LocatedIn(tk, w) ==
    [i \in 1..Len(tk) |->
        [role |-> tk[i].role, ty |-> tk[i].ty, txt |-> tk[i].txt,
         at |-> tk[i].at, lvl |-> tk[i].lvl, start |-> StartOf(tk, w, i)]]

\* a session over the text of the tokens tk, a broken writing of document d
StartBroken(d, w, tk) ==
        /\ doc = d
        /\ ws = w
        /\ toks = LocatedIn(tk, w)
        /\ bytes = Pad(w) \o Render(tk, w, 1)
        /\ pos = new.pos
        /\ next_byte = new.next_byte
        /\ stack = new.stack
        /\ fault = new.fault
        /\ call = NoCall
        /\ res = Res("Unit", <<>>)
        /\ pre = new
        /\ items = [of |-> NoCall, got |-> <<>>]

InitBroken ==
    \E d \in BrokenDocs, w \in 0..MaxWs :
        \E tk \in Truncations(d) \cup Drops(d) : StartBroken(d, w, tk)

\* the same caller over truncated and malformed texts
SpecBroken == InitBroken /\ [][Next]_vars

\* one scalar at the root, in an array, in an object, and one container
\* deeper in each of the four ways
Contexts(s) ==
    {s,
     Arr(<<s>>),
     Obj(<<Mem(A_, s)>>),
     Arr(<<Arr(<<s>>)>>),
     Obj(<<Mem(A_, Arr(<<s>>))>>),
     Arr(<<Obj(<<Mem(A_, s)>>)>>),
     Obj(<<Mem(A_, Obj(<<Mem(A_, s)>>))>>)}

\* runs of digits, signs and points as a text can have them where a number
\* is expected, written as they stand
Run(txt) == Scalar("Run", txt)

Runs ==
    {Run(<<"1">>), Run(<<"1", "2">>), Run(<<"-", "1">>), Run(<<"+", "1">>),
     Run(<<"1", ".", "5">>), Run(<<"-", "1", ".", "5">>), Run(<<"-", ".", "5">>),
     Run(<<"1", ".">>), Run(<<"-", "1", ".">>), Run(<<"1", ".", ".", "5">>),
     Run(<<"1", ".", "2", ".", "3">>), Run(<<"-">>), Run(<<"+">>),
     Run(<<"1", "-">>), Run(<<"1", "+">>), Run(<<"1", "-", "2">>),
     Run(<<"+", "-", "1">>), Run(<<"1", ".", "5", "-">>)}

\* strings with escapes (correct_input_starting_with_brace has \" in its
\* strings): a\"b, \\ and a\n, written between quotes
Escaped ==
    {Str(<<"a", "\\", "\"", "b">>), Str(<<"\\", "\\">>), Str(<<"a", "\\", "n">>)}

\* a string that is opened and not closed: "a and "a\"
Unclosed ==
    {Scalar("Open", <<"\"", "a">>), Scalar("Open", <<"\"", "a", "\\", "\"">>)}

\* numbers and keywords written with a blank inside
Split ==
    {Scalar("Split", <<"1", " ", "2">>), Scalar("Split", <<"1", "2", " ", "3">>),
     Scalar("Split", <<"n", " ", "u", "l", "l">>),
     Scalar("Split", <<"n", "u", " ", "l", "l">>),
     Scalar("Split", <<"t", " ", "r", "u", "e">>)}

EdgeDocs == UNION {Contexts(s) : s \in Runs \cup Escaped \cup Unclosed \cup Split}

\* the documents that more input follows or that get a comma too many
PlainDocs == Contexts(Num(<<"1">>)) \cup Contexts(Str(A_))

\* a document followed by more input (incorrect_extra_input_start_with_brace
\* has a comma after the document); a number is not put right behind a number
Extras(d, w) ==
    LET tk == Tokens(d)
        more(src) == tk \o <<Tok("extra", "None", src, src, <<>>, 0)>>
    IN {more(<<",">>), more(<<"{">>)}
       \cup (IF w = 0 /\ tk[Len(tk)].ty = "Int" THEN {} ELSE {more(<<"2">>)})

\* a document with a comma before the closing delimiter of a container
\* that has a member
TrailingCommas(d) ==
    LET tk == Tokens(d)
        closes == {i \in 2..Len(tk) : tk[i].role = "close" /\ tk[i - 1].role # "open"}
        comma(i) == Tok("comma", "Trailing", <<",">>, <<",">>, tk[i].at, tk[i].lvl + 2)
    IN {SubSeq(tk, 1, i - 1) \o <<comma(i)>> \o SubSeq(tk, i, Len(tk)) : i \in closes}

\* an object cut inside its first key: {"a
UnclosedKey == <<Tok("open", "None", <<"{">>, <<"{">>, <<>>, 0),
                 Tok("key", "Open", <<"\"", "a">>, <<"\"", "a">>, <<1>>, 2)>>

\* the documents that get a closing delimiter of the wrong kind
MismatchDocs ==
    PlainDocs \cup {Arr(<<>>), Obj(<<>>), Arr(<<Obj(<<>>)>>), Obj(<<Mem(A_, Arr(<<>>))>>)}

Wrong(c, t) == Tok("close", "Wrong", <<c>>, <<c>>, t.at, t.lvl)

\* a document with '}' where an array ends or ']' where an object ends, or
\* with a closing delimiter where the value of a member is
Mismatches(d) ==
    LET tk == Tokens(d)
        closes == {i \in 1..Len(tk) : tk[i].role = "close"}
        values == {i \in 2..Len(tk) : tk[i].role = "value" /\ tk[i - 1].role = "colon"}
        other(t) == IF t.txt = <<"]">> THEN "}" ELSE "]"
    IN {[tk EXCEPT ![i] = Wrong(other(tk[i]), tk[i])] : i \in closes}
       \cup {[tk EXCEPT ![i] = Wrong(c, tk[i])] : i \in values, c \in {"}", "]"}}

InitEdge ==
    \E w \in 0..MaxWs :
        \/ \E d \in EdgeDocs : Start(d, w)
        \/ \E d \in PlainDocs :
               \E tk \in Extras(d, w) \cup TrailingCommas(d) : StartBroken(d, w, tk)
        \/ \E d \in MismatchDocs : \E tk \in Mismatches(d) : StartBroken(d, w, tk)
        \/ StartBroken(Obj(<<Mem(A_, Null)>>), w, UnclosedKey)

\* the same caller over texts with numbers of every shape, escapes, strings
\* left open, input after the document and commas before a closing delimiter
SpecEdge == InitEdge /\ [][Next]_vars

-----------------------------------------------------------------------------
(* The document as the reference: what a position of the text is, read off *)
(* the tree and not off the automaton.                                     *)

T == toks

\* the offset of the lookahead byte: every byte before it is consumed
Cursor(p) == IF p.next_byte = NIL THEN Len(bytes) ELSE p.pos - 1

\* the number of tokens of the document a parser has consumed
Consumed(p) == Cardinality({i \in 1..Len(T) : T[i].start < Cursor(p)})

IsItem(t) == t.role \in {"key", "value"}

RECURSIVE ItemsFrom(_, _)
\* the keys and scalar values among the tokens tk[i..], in document order
ItemsFrom(tk, i) ==
    IF i > Len(tk) THEN <<>>
    ELSE (IF IsItem(tk[i]) THEN <<Item(tk[i])>> ELSE <<>>) \o ItemsFrom(tk, i + 1)

\* the first index j > i of a token that satisfies Want, or 0
FirstAfter(i, Want(_)) ==
    LET S == {j \in (i + 1)..Len(T) : Want(T[j])}
    IN IF S = {} THEN 0 ELSE CHOOSE j \in S : \A k \in S : j <= k

Called(op) == call.op = op

-----------------------------------------------------------------------------
(* C1: on a well-formed document, next_item() called repeatedly from       *)
(* construction returns exactly the keys and scalar values of the document *)
(* in document order, each with its type and raw text, raises no fault,    *)
(* and returns end-of-stream only after the last of them.                  *)

C1_NextItemYieldsEveryItem ==
    items.of.op = "next_item" =>
        /\ fault = "none"
        /\ res.k \in {"Ok", "EOS"}
        /\ items.got = SubSeq(ItemsFrom(T, 1), 1, Len(items.got))
        /\ res.k = "EOS" => items.got = ItemsFrom(T, 1)
        /\ res.k = "Ok" => Len(items.got) = Len(ItemsFrom(SubSeq(T, 1, Consumed(Cur)), 1))

C1_Witness ==
    /\ items.of.op = "next_item"
    /\ res.k = "EOS"
    /\ Len(items.got) >= 3
    /\ \E i \in 1..Len(T) : T[i].role = "colon"

-----------------------------------------------------------------------------
(* C2: next_key_by_name(name) returns the first key after the cursor, at   *)
(* any depth, whose text is name, and stops right after it; it never goes  *)
(* back to a key before the cursor; when no such key remains it consumes   *)
(* the rest of the input and returns end-of-stream.                        *)

NamedKey(t) == t.role = "key" /\ t.txt = call.arg

C2_NextKeyByNameFirstForward ==
    Called("next_key_by_name") =>
        LET j == FirstAfter(Consumed(pre), NamedKey)
        IN /\ fault = "none"
           /\ j # 0 => res = OkItem(T[j]) /\ Consumed(Cur) = j
           /\ j = 0 => res = EOS /\ next_byte = NIL /\ Consumed(Cur) = Len(T)

\* a key of that name lies before the cursor, another key is passed over,
\* and the match is nested deeper than the root container
C2_Witness ==
    /\ Called("next_key_by_name")
    /\ res.k = "Ok"
    /\ \E i \in 1..Consumed(pre) : T[i].role = "key" /\ T[i].txt = call.arg
    /\ \E i \in (Consumed(pre) + 1)..(Consumed(Cur) - 1) :
           T[i].role = "key" /\ T[i].txt # call.arg
    /\ T[Consumed(Cur)].lvl >= 4

-----------------------------------------------------------------------------
(* Reference: nodes, members and materialized values read off the tree *)

RECURSIVE NodeAt(_, _)
\* the node of d at a path of member indices
NodeAt(d, path) ==
    IF path = <<>> THEN d
    ELSE NodeAt(IF d.k = "O" THEN d.el[path[1]].val ELSE d.el[path[1]], Tail(path))

Parent(path) == SubSeq(path, 1, Len(path) - 1)

Last(path) == path[Len(path)]

\* the index of the token of role r that belongs to the node at path, or 0
TokenOf(r, path) ==
    LET S == {i \in 1..Len(T) : T[i].role = r /\ T[i].at = path}
    IN IF S = {} THEN 0 ELSE CHOOSE i \in S : TRUE

\* the index of the last token of the node at path
EndOf(path) ==
    IF NodeAt(doc, path).k = "S" THEN TokenOf("value", path) ELSE TokenOf("close", path)

\* the parser has consumed a key and nothing after it
AfterKey(p) == Consumed(p) >= 1 /\ T[Consumed(p)].role = "key"

\* the path of the member whose key the parser has just consumed
KeyPath(p) == T[Consumed(p)].at

\* the path of the next member of the same object, if it has one
SiblingPath(path) == Parent(path) \o <<Last(path) + 1>>

HasSibling(path) == Last(path) < Len(NodeAt(doc, Parent(path)).el)

RECURSIVE Represents(_, _)
\* content c is the materialized value of node n: a leaf with the scalar's
\* type and text, the elements in order, the members under their keys (of
\* members written under one key, the last)
Represents(c, n) ==
    CASE n.k = "S" -> c = Simple(n)
      [] n.k = "A" ->
           /\ c.c = "Array"
           /\ Len(c.v) = Len(n.el)
           /\ \A i \in 1..Len(n.el) : Represents(c.v[i], n.el[i])
      [] n.k = "O" ->
           /\ c.c = "Object"
           /\ DOMAIN c.v = {n.el[i].key : i \in 1..Len(n.el)}
           /\ \A i \in 1..Len(n.el) :
                  (\A j \in (i + 1)..Len(n.el) : n.el[j].key # n.el[i].key)
                      => Represents(c.v[n.el[i].key], n.el[i].val)

\* the fields of the frames a caller can read
Frames(st) ==
    [i \in 1..Len(st) |->
        [key |-> st[i].key, level |-> st[i].level, nth |-> st[i].nth,
         symbol |-> st[i].symbol]]

-----------------------------------------------------------------------------
(* C3: current_value_content() called right after construction returns the *)
(* materialized value of the whole document: every scalar a leaf with its  *)
(* type and raw text, arrays in order, object members under their keys.    *)

C3_WholeDocumentMaterialized ==
    (Called("current_value_content") /\ pre = new) =>
        /\ res.k = "Content"
        /\ Represents(res.v, doc)

-----------------------------------------------------------------------------
(* C4: right after a key K, current_value_content() returns the value of K *)
(* and consumes exactly that value: the frames of the value and its        *)
(* pending-value frame are gone, the frames of the enclosing containers    *)
(* are as they were, and the next next_item() returns the first key or     *)
(* value written after the value of K.                                     *)

C4_ValueOfKeyConsumedExactly ==
    (Called("current_value_content") /\ AfterKey(pre)) =>
        LET path == KeyPath(pre)
            j == FirstAfter(EndOf(path), IsItem)
        IN /\ res.k = "Content"
           /\ Represents(res.v, NodeAt(doc, path))
           /\ Consumed(Cur) = EndOf(path)
           /\ Frames(stack) = Frames(pre.stack)
           /\ next_item(Cur).r = IF j = 0 THEN EOS ELSE OkItem(T[j])

\* the value of K is a container with members, and items follow it
C4_Witness ==
    /\ Called("current_value_content")
    /\ AfterKey(pre)
    /\ Len(NodeAt(doc, KeyPath(pre)).el) >= 2
    /\ next_item(Cur).r.k = "Ok"
    /\ Len(stack) >= 4

-----------------------------------------------------------------------------
(* C5: seek_by_level_offset(0.0) right after a key K of an object stops    *)
(* right after the value of K.  It returns true when the object has a      *)
(* further member: the cursor is then before the comma, so the next step   *)
(* consumes "," and the step after it emits the next sibling key.  It      *)
(* returns false when K was the last member: the cursor is before "}".     *)

SeekZeroAfterKey == Called("seek_by_level_offset") /\ call.arg = 0 /\ AfterKey(pre)

C5_SeekZeroStopsBeforeComma ==
    SeekZeroAfterKey =>
        LET path == KeyPath(pre)
            step1 == walk_forward(Cur)
            step2 == walk_forward(step1.p)
        IN /\ fault = "none"
           /\ Consumed(Cur) = EndOf(path)
           /\ get_current_level(Cur) = get_current_level(pre)
           /\ IF HasSibling(path)
              THEN /\ res = Res("Bool", TRUE)
                   /\ step1.item = NoneItem(",")
                   /\ step2.item = KeyItem(T[TokenOf("key", SiblingPath(path))])
              ELSE /\ res = Res("Bool", FALSE)
                   /\ next_byte = "}"

\* the claim as written: the next step emits the sibling key
C5_NextStepEmitsSiblingKey ==
    SeekZeroAfterKey =>
        IF HasSibling(KeyPath(pre))
        THEN /\ res = Res("Bool", TRUE)
             /\ walk_forward(Cur).item = KeyItem(T[TokenOf("key", SiblingPath(KeyPath(pre)))])
        ELSE res = Res("Bool", FALSE)

\* the value passed over is a container with a key of its own
C5_Witness ==
    /\ SeekZeroAfterKey
    /\ res = Res("Bool", TRUE)
    /\ \E i \in (Consumed(pre) + 1)..Consumed(Cur) : T[i].role = "key"

-----------------------------------------------------------------------------
(* C6: right after a key K of an object O, next_sibling_key() returns the  *)
(* next key of O, passing over everything nested in the value of K, and    *)
(* returns end-of-stream when K is the last key of O, whatever keys the    *)
(* enclosing containers still hold.  Repeated calls therefore return the   *)
(* keys of O after K in document order and then end-of-stream.             *)

C6_NextSiblingKeyOfSameObject ==
    (Called("next_sibling_key") /\ AfterKey(pre)) =>
        LET path == KeyPath(pre)
            j == TokenOf("key", SiblingPath(path))
        IN /\ fault = "none"
           /\ IF HasSibling(path)
              THEN res = OkItem(T[j]) /\ Consumed(Cur) = j /\ AfterKey(Cur)
              ELSE res = EOS /\ Consumed(Cur) = EndOf(path)

\* a sibling is returned after nested keys were passed over
C6_Witness ==
    /\ Called("next_sibling_key")
    /\ AfterKey(pre)
    /\ res.k = "Ok"
    /\ \E i \in (Consumed(pre) + 1)..(Consumed(Cur) - 1) : T[i].role = "key"

\* the last key of a nested object: end-of-stream though keys follow outside
C6_WitnessLast ==
    /\ Called("next_sibling_key")
    /\ AfterKey(pre)
    /\ res = EOS
    /\ FirstAfter(Consumed(Cur), LAMBDA t : t.role = "key") # 0

-----------------------------------------------------------------------------
(* C7: once next_sibling_key() has returned end-of-stream at the end of    *)
(* the current object or array, a further next_sibling_key() returns       *)
(* end-of-stream again, consumes nothing and raises no fault.              *)

C7_SiblingEndIsStable ==
    [][(/\ Called("next_sibling_key")
        /\ res = EOS
        /\ next_byte \in {"}", "]"}
        /\ call'.op = "next_sibling_key")
       => (/\ res' = EOS
           /\ fault' = "none"
           /\ pos' = pos
           /\ next_byte' = next_byte
           /\ stack' = stack)]_vars

-----------------------------------------------------------------------------
(* C8: right after a key whose value is a non-empty object,                *)
(* next_child_key() returns the first key of that object.                  *)

ValueOfKey(p) == NodeAt(doc, KeyPath(p))

C8_ChildKeyOfObjectValue ==
    (/\ Called("next_child_key")
     /\ AfterKey(pre)
     /\ ValueOfKey(pre).k = "O"
     /\ Len(ValueOfKey(pre).el) > 0) =>
        LET j == TokenOf("key", KeyPath(pre) \o <<1>>)
        IN /\ fault = "none"
           /\ res = OkItem(T[j])
           /\ Consumed(Cur) = j
           /\ j = Consumed(pre) + 3

C8_Witness ==
    /\ Called("next_child_key")
    /\ AfterKey(pre)
    /\ ValueOfKey(pre).k = "O"
    /\ Len(ValueOfKey(pre).el) > 1
    /\ res.k = "Ok"
    /\ HasSibling(KeyPath(pre))

-----------------------------------------------------------------------------
(* C9: right after a key whose value is a scalar, next_child_key() returns *)
(* end-of-stream.                                                          *)

C9_ChildKeyOfScalarValueIsEOS ==
    (/\ Called("next_child_key")
     /\ AfterKey(pre)
     /\ ValueOfKey(pre).k = "S") => res = EOS

-----------------------------------------------------------------------------
(* C10: right after a key at level N, next_child_key() scans forward to    *)
(* the first position where the top frame is at level N+1.  If the byte    *)
(* after that position closes a container, it returns end-of-stream there; *)
(* otherwise it returns the first key written after that position, at any  *)
(* depth, or end-of-stream at the end of the input when none is.  If no    *)
(* position at level N+1 follows, the scan runs to the end of the document *)
(* and the call faults.  After key1 of the test document the result is     *)
(* key71.                                                                  *)

\* the level of the top frame once token t is consumed, in half units
LevelAfter(t) ==
    CASE t.role = "open" -> t.lvl + 2
      [] t.role = "colon" -> t.lvl + 1
      [] OTHER -> t.lvl

AtChildLevel(t) == LevelAfter(t) = T[Consumed(pre)].lvl + 2

IsKey(t) == t.role = "key"

ChildKeyAfterKey == Called("next_child_key") /\ AfterKey(pre)

-----------------------------------------------------------------------------
(* C11: a key returned by next_child_key() called at an integer level N is *)
(* a key at level N+1: never a key of a grandchild or deeper descendant.   *)

C11_ChildKeyIsOneLevelDeeper ==
    (/\ Called("next_child_key")
     /\ res.k = "Ok"
     /\ get_current_level(pre) % 2 = 0) =>
        /\ T[Consumed(Cur)].role = "key"
        /\ T[Consumed(Cur)].lvl = get_current_level(pre) + 2

-----------------------------------------------------------------------------
(* C12: right after a key at level N >= 2, next_key_from_parent() returns  *)
(* the next key of the container that encloses the key's own object, or    *)
(* end-of-stream when that container has no further key; it never returns  *)
(* a key of another container.                                             *)

C12_NextKeyOfEnclosingContainer ==
    (/\ Called("next_key_from_parent")
     /\ AfterKey(pre)
     /\ Len(KeyPath(pre)) >= 2) =>
        LET own == Parent(KeyPath(pre))
            encl == NodeAt(doc, Parent(own))
        IN IF encl.k = "O" /\ HasSibling(own)
           THEN res = OkItem(T[TokenOf("key", SiblingPath(own))])
           ELSE res = EOS

-----------------------------------------------------------------------------
(* C13: for an integer level L >= 1, next_item_by_level(L) returns the     *)
(* first key or scalar value after the cursor that lies directly inside a  *)
(* container of depth L, passing over the items of other depths.  On the   *)
(* test document next_item_by_level(2.0) returns the first key1 and a      *)
(* following next_item_by_level(4.0) the second key4.                      *)

ItemAtCalledLevel(t) == IsItem(t) /\ t.lvl = call.arg

ByIntegerLevel == Called("next_item_by_level") /\ call.arg % 2 = 0

-----------------------------------------------------------------------------
(* C14: right after a key at level N whose value is a scalar,              *)
(* next_item_by_level(N + 0.5) returns that value, the item of the         *)
(* pending-value frame, and next_item_by_level(N) does not return it.      *)

C14_ScalarValueAtColonLevel ==
    (/\ Called("next_item_by_level")
     /\ AfterKey(pre)
     /\ ValueOfKey(pre).k = "S") =>
        LET n == T[Consumed(pre)].lvl
            v == TokenOf("value", KeyPath(pre))
        IN /\ call.arg = n + 1 => res = OkItem(T[v]) /\ Consumed(Cur) = v
           /\ call.arg = n => ~(res.k = "Ok" /\ Consumed(Cur) = v)

-----------------------------------------------------------------------------
(* C15: when no item of the level asked for follows the cursor,            *)
(* next_item_by_level returns end-of-stream; when no position of the       *)
(* target level (>= 1) follows, seek_by_level_offset, called with frames   *)
(* on the stack, returns false.  Neither call ends in a fatal fault.       *)

SeekTarget == get_current_level(pre) + call.arg

AtSeekTarget(t) == LevelAfter(t) = SeekTarget

C15_UnreachedLevelIsEndOfStream ==
    /\ (/\ Called("next_item_by_level")
        /\ FirstAfter(Consumed(pre), ItemAtCalledLevel) = 0) => res = EOS
    /\ (/\ Called("seek_by_level_offset")
        /\ Len(pre.stack) > 0
        /\ SeekTarget >= 2
        /\ FirstAfter(Consumed(pre), AtSeekTarget) = 0) => res = Res("Bool", FALSE)

-----------------------------------------------------------------------------
(* Reference: the containers around a position, read off the tree.  A      *)
(* container is open after c tokens when its opening token is among them   *)
(* and its closing token is not.  Its member being visited is counted by   *)
(* the commas of the container already passed; the key of an object is the *)
(* last key of it already passed (none: the empty text); the key of an     *)
(* array is the key of the member it is the value of, through the arrays   *)
(* it is nested in, and the root's name when there is no such member.      *)

ChildOf(t, q) == Len(t.at) = Len(q) + 1 /\ Parent(t.at) = q

OpenAt(c) ==
    {i \in 1..c : T[i].role = "open" /\ TokenOf("close", T[i].at) > c}

\* the members of a set of indices in increasing order
Ascending(S) ==
    [k \in 1..Cardinality(S) |->
        CHOOSE i \in S : Cardinality({j \in S : j < i}) = k - 1]

CommasOf(q, c) ==
    Cardinality({j \in 1..c : T[j].role = "comma" /\ ChildOf(T[j], q)})

LastKeyOf(q, c) ==
    LET S == {j \in 1..c : T[j].role = "key" /\ ChildOf(T[j], q)}
    IN IF S = {} THEN <<>> ELSE T[CHOOSE j \in S : \A k \in S : k <= j].txt

RECURSIVE ReachedKey(_)
ReachedKey(q) ==
    IF q = <<>> THEN ROOT
    ELSE IF NodeAt(doc, Parent(q)).k = "O" THEN NodeAt(doc, Parent(q)).el[Last(q)].key
    ELSE ReachedKey(Parent(q))

\* the container opened by token i as it stands after c tokens
RefFrame(i, c) ==
    LET q == T[i].at
    IN IF T[i].txt = <<"{">>
       THEN [symbol |-> "{", key |-> LastKeyOf(q, c), nth |-> CommasOf(q, c),
             level |-> 2 * (Len(q) + 1)]
       ELSE [symbol |-> "[", key |-> ReachedKey(q), nth |-> CommasOf(q, c),
             level |-> 2 * (Len(q) + 1)]

\* the open containers after c tokens, outermost first
RefFrames(c) ==
    LET open == Ascending(OpenAt(c))
    IN [k \in 1..Len(open) |-> RefFrame(open[k], c)]

\* the object and array frames of a stack, bottom to top
ContainerFrames(st) ==
    SelectSeq(Frames(st), LAMBDA f : f.symbol \in {"{", "["})

-----------------------------------------------------------------------------
(* C16: next_item_by_pattern([p0..pk]) returns a token only if the         *)
(* containers around it, from the innermost outward, satisfy pk, p(k-1),   *)
(* .., p0 (pending-value frames and the root frame are no containers), so  *)
(* never a token with fewer than k+1 containers around it; the stack after *)
(* the call is the stack of the token's position; and the predicates are   *)
(* evaluated innermost frame first, one per container frame, up to the     *)
(* first that fails and no further.                                        *)

ByPattern == Called("next_item_by_pattern") /\ res.k = "Ok"

\* the token a call has returned, and the containers around it
Returned == T[Consumed(Cur)]

Around == RefFrames(Consumed(Cur))

\* the frame the j-th predicate of a pattern of n predicates is matched with
FrameFor(F, n, j) == F[Len(F) - n + j]

MatchesAround(pattern, F, t) ==
    /\ Len(F) >= Len(pattern)
    /\ \A j \in 1..Len(pattern) :
           Holds(pattern[j],
                 CurrentState(FrameFor(F, Len(pattern), j), Item(t), t.role = "key"))

\* the predicates evaluated for the token just consumed under a pattern
SeenFor(pattern) ==
    match_frames(stack, Len(stack), pattern, Len(pattern),
                 Item(Returned), Returned.role = "key")

EvaluatedInOrder(pattern) ==
    LET m == SeenFor(pattern)
        held(e) == Holds(pattern[e.pat],
                         CurrentState(stack[e.frame], Item(Returned), Returned.role = "key"))
    IN /\ \A n \in 1..Len(m.seen) :
              /\ m.seen[n].pat = Len(pattern) - n + 1
              /\ m.seen[n].frame >= 2
              /\ stack[m.seen[n].frame].symbol # ":"
              /\ n < Len(m.seen) =>
                     /\ held(m.seen[n])
                     /\ m.seen[n + 1].frame < m.seen[n].frame
                     /\ \A f \in (m.seen[n + 1].frame + 1)..(m.seen[n].frame - 1) :
                            stack[f].symbol = ":"
       /\ m.ok <=> /\ Len(m.seen) = Len(pattern)
                   /\ held(m.seen[Len(m.seen)])
       /\ ~m.ok /\ m.seen # <<>> /\ held(m.seen[Len(m.seen)]) =>
              \A f \in 2..(m.seen[Len(m.seen)].frame - 1) : stack[f].symbol = ":"

C16_PatternMatchesInnermostFrames ==
    /\ ByPattern =>
           /\ Consumed(Cur) > Consumed(pre)
           /\ IsItem(Returned)
           /\ res.v = Item(Returned)
           /\ MatchesAround(call.arg, Around, Returned)
           /\ ContainerFrames(stack) = Around
    /\ (fault = "none" /\ Consumed(Cur) >= 1 /\ IsItem(Returned) /\ Len(stack) >= 1) =>
           \A pattern \in Patterns : EvaluatedInOrder(pattern)

\* the test: [level 2 and first, key1 at level 3, key4] from the start of
\* the document returns the second key4, whose four containers are the root
\* array, its second element, the object in it and the value of its key1;
\* the first key4 is passed over, its object of key1 being at level 2
C16_Witness ==
    /\ doc = LevelsJson
    /\ ByPattern
    /\ call.arg = <<"level2_first", "key1_level3", "key4">>
    /\ Consumed(pre) = 0
    /\ res = Res("Ok", [ty |-> "Str", txt |-> Key(<<"4">>)])
    /\ Len(Around) = 4
    /\ Len(stack) > Len(Around) + 1
    /\ \E i \in 1..(Consumed(Cur) - 1) : T[i].role = "key" /\ T[i].txt = Key(<<"4">>)

-----------------------------------------------------------------------------
(* C17: repeated calls of next_item_by_pattern with one pattern return, in *)
(* document order, every key and scalar of the rest of the document that   *)
(* satisfies the pattern, none skipped and none twice, and then            *)
(* end-of-stream: each call returns the first such token behind the cursor *)
(* and stops right after it, and returns end-of-stream when there is none. *)

IndexOf(t) == CHOOSE i \in 1..Len(T) : T[i].start = t.start

Satisfies(t) ==
    IsItem(t) /\ MatchesAround(call.arg, RefFrames(IndexOf(t)), t)

C17_EveryMatchingTokenInOrder ==
    Called("next_item_by_pattern") =>
        LET j == FirstAfter(Consumed(pre), Satisfies)
        IN IF j # 0
           THEN /\ fault = "none"
                /\ res = OkItem(T[j])
                /\ Consumed(Cur) = j
           ELSE /\ fault = "none"
                /\ res = EOS

-----------------------------------------------------------------------------
(* C18: in every state get_path_string() is '#/' followed, for each object *)
(* or array around the position from the outermost to the innermost, by    *)
(* '{key,nth}/' for an object and '[key,nth]/' for an array; a pending     *)
(* value adds no segment; the key of an object is the key read last in it, *)
(* the key of an array is the key it was reached under, and nth is the     *)
(* zero-based index of the member being visited.                           *)

\* nth as it is written; the documents have fewer than ten members
Written(n) == <<<<"0", "1", "2", "3", "4", "5", "6", "7", "8", "9">>[n + 1]>>

Segment(f) ==
    IF f.symbol = "{"
    THEN <<"{">> \o f.key \o <<",">> \o Written(f.nth) \o <<"}", "/">>
    ELSE <<"[">> \o f.key \o <<",">> \o Written(f.nth) \o <<"]", "/">>

RECURSIVE Segments(_, _)
Segments(F, i) == IF i > Len(F) THEN <<>> ELSE Segment(F[i]) \o Segments(F, i + 1)

PathStringAt(c) == <<"#", "/">> \o Segments(RefFrames(c), 1)

-----------------------------------------------------------------------------
(* Reference: how a broken text differs from the document it was made of   *)

Same(a, b) == a.role = b.role /\ a.txt = b.txt /\ a.at = b.at

Differing == {i \in 1..Len(T) : i > Len(Tokens(doc)) \/ ~Same(T[i], Tokens(doc)[i])}

\* the text ends before the document does
Truncated == Differing = {} /\ Len(T) < Len(Tokens(doc))

\* the text has a token the document has not at that place
Malformed == Differing # {}

\* the offset of the first byte that the document does not have there
Unexpected == T[CHOOSE i \in Differing : \A j \in Differing : i <= j].start

-----------------------------------------------------------------------------
(* C19: in an object, a dropped key ({:123}), a dropped colon ({"key"123}) *)
(* and a dropped value ({"key":,}) each raise a fatal fault at the step    *)
(* that meets the unexpected byte: no call gets past that byte without the *)
(* fault, so the input never ends in a normal end-of-stream.               *)

C19_UnexpectedByteIsFatal ==
    Malformed =>
        /\ fault \in {"none", "panic"}
        /\ fault = "none" => /\ next_byte # NIL
                             /\ Cursor(Cur) <= Unexpected

\* incorrect_input_drop_colon: {"key"123} is read up to the key, and the
\* next step, which meets the 1, raises the fault
C19_Witness ==
    /\ Malformed
    /\ doc = KeyJson
    /\ bytes = <<"{">> \o Quoted(Key(<<>>)) \o <<"1", "2", "3", "}">>
    /\ pre.next_byte = "1"
    /\ Cursor(pre) = Unexpected
    /\ Called("next_item")
    /\ fault = "panic"

-----------------------------------------------------------------------------
(* C20: whenever the text ends while an object or an array is open (a      *)
(* truncated document such as {"key": or [1 or {"a":1,), driving the       *)
(* walker to the end of the input raises a fatal fault: the input is never *)
(* exhausted without one.                                                  *)

C20_TruncationIsFatal ==
    Truncated => ~(fault = "none" /\ next_byte = NIL)

-----------------------------------------------------------------------------
(* C27: the current level follows the half-integer convention at every     *)
(* step: right after a key of an object at level N it is N, after the      *)
(* colon N+0.5, after a scalar value N again, after the opening delimiter  *)
(* of a container value N+1, and after the closing delimiter of that       *)
(* container N again, the pending-value frame being removed in the same    *)
(* step as the container frame (the object's frame is the top again).      *)

\* the last token consumed is part of a member of an object
InObject(t) ==
    /\ t.role # "comma"
    /\ Len(t.at) >= 1
    /\ NodeAt(doc, Parent(t.at)).k = "O"

AfterToken == fault = "none" /\ Consumed(Cur) >= 1

C27_LevelsFollowHalfIntegerConvention ==
    (AfterToken /\ InObject(Returned)) =>
        /\ get_current_level(Cur) = LevelAfter(Returned)
        /\ Returned.role \in {"key", "value", "close"} =>
               /\ stack[Len(stack)].symbol = "{"
               /\ get_current_level(Cur) % 2 = 0
        /\ Returned.role = "colon" =>
               /\ stack[Len(stack)].symbol = ":"
               /\ get_current_level(Cur) = stack[Len(stack) - 1].level + 1

\* after the closing delimiter of a container that is the value of a
\* member, by a single step from inside the container
C27_Witness ==
    /\ AfterToken
    /\ InObject(Returned)
    /\ Returned.role = "close"
    /\ Called("move_n_element_forward")
    /\ Len(pre.stack) = Len(stack) + 2
    /\ get_current_level(pre) = get_current_level(Cur) + 2

-----------------------------------------------------------------------------
(* C28: in every reachable state the root pending-value frame has level 0, *)
(* every object or array frame has an integer level equal to the floor of  *)
(* the level of the frame beneath it plus 1, which is the number of object *)
(* and array frames at or below it, every other pending-value frame has    *)
(* the level of the object frame beneath it plus 0.5, and levels strictly  *)
(* increase from the bottom of the stack to the top.                       *)

IsContainer(f) == f.symbol \in {"{", "["}

ContainersUpTo(st, i) == Cardinality({j \in 1..i : IsContainer(st[j])})

C28_FrameLevels ==
    (fault = "none" /\ Len(stack) >= 1) =>
        /\ stack[1].symbol = ":" /\ stack[1].level = 0
        /\ \A i \in 2..Len(stack) :
               /\ stack[i].level > stack[i - 1].level
               /\ IsContainer(stack[i]) =>
                      /\ stack[i].level % 2 = 0
                      /\ stack[i].level = 2 * (stack[i - 1].level \div 2) + 2
                      /\ stack[i].level = 2 * ContainersUpTo(stack, i)
               /\ ~IsContainer(stack[i]) =>
                      /\ stack[i - 1].symbol = "{"
                      /\ stack[i].level = stack[i - 1].level + 1

\* an array that is the value of a member of an object inside an array
C28_Witness ==
    /\ fault = "none"
    /\ Len(stack) = 5
    /\ stack[5].symbol = "[" /\ stack[5].level = 6
    /\ stack[4].symbol = ":" /\ stack[4].level = 5
    /\ stack[3].symbol = "{"
    /\ stack[2].symbol = "["

-----------------------------------------------------------------------------
(* C29: in every reachable state in which input remains (the lookahead is  *)
(* not the end sentinel) the stack holds at least one frame, and the root  *)
(* frame is never popped during a parse session.                           *)

IsRoot(f) == f.symbol = ":" /\ f.key = ROOT /\ f.level = 0

-----------------------------------------------------------------------------
(* C30: for every object or array frame nth is 0 when the frame is pushed, *)
(* is at every moment the number of commas consumed directly inside that   *)
(* container since it was opened, never decreases, and is not changed by   *)
(* steps inside nested containers or by their closing.                     *)

\* the containers open before and after the last call alike, outermost first
Kept ==
    {k \in 1..Len(RefFrames(Consumed(pre))) :
        /\ k <= Len(RefFrames(Consumed(Cur)))
        /\ Ascending(OpenAt(Consumed(pre)))[k] = Ascending(OpenAt(Consumed(Cur)))[k]}

CommasBetween(k) ==
    RefFrames(Consumed(Cur))[k].nth - RefFrames(Consumed(pre))[k].nth

C30_NthCountsCommas ==
    fault = "none" =>
        LET F == ContainerFrames(stack)
            R == RefFrames(Consumed(Cur))
            B == ContainerFrames(pre.stack)
        IN /\ Len(F) = Len(R)
           /\ \A k \in 1..Len(F) : F[k].nth = R[k].nth
           /\ (Consumed(Cur) >= 1 /\ Returned.role = "open") => F[Len(F)].nth = 0
           /\ \A k \in Kept : /\ F[k].nth >= B[k].nth
                              /\ F[k].nth = B[k].nth + CommasBetween(k)

\* a call that went through a nested container with commas of its own and
\* closed it, the outer array having counted one comma before and after
C30_Witness ==
    /\ fault = "none"
    /\ Len(ContainerFrames(stack)) >= 1
    /\ 1 \in Kept
    /\ ContainerFrames(stack)[1].nth = 1
    /\ ContainerFrames(pre.stack)[1].nth = 1
    /\ \E i \in (Consumed(pre) + 1)..Consumed(Cur) :
           T[i].role = "comma" /\ Len(T[i].at) = 2
    /\ T[Consumed(Cur)].role = "close"

-----------------------------------------------------------------------------
(* C26: a run that starts with a digit, '+' or '-' is accepted exactly     *)
(* when it has at most one '.', no sign after its first byte and a digit   *)
(* as its last byte; the token is Int without a '.' and Float with one and *)
(* keeps the run as written, sign and point included; a second '.', a      *)
(* trailing '.', a lone sign and a sign inside or right after the run are  *)
(* fatal format errors.                                                    *)

IsRun(t) == t.ty = "Run"

Points(txt) == Cardinality({i \in 1..Len(txt) : txt[i] = "."})

SignAfterFirst(txt) == \E i \in 2..Len(txt) : txt[i] \in {"+", "-"}

Accepted(txt) ==
    /\ Points(txt) <= 1
    /\ ~SignAfterFirst(txt)
    /\ txt[Len(txt)] \in Digits

NumberType(txt) == IF Points(txt) = 0 THEN "Int" ELSE "Float"

\* the key or scalar that next_item() was called in front of
Ahead == FirstAfter(Consumed(pre), IsItem)

C26_NumberFormat ==
    /\ (Called("next_item") /\ Ahead # 0 /\ IsRun(T[Ahead])) =>
           IF Accepted(T[Ahead].txt)
           THEN /\ fault = "none"
                /\ res = Res("Ok", [ty |-> NumberType(T[Ahead].txt), txt |-> T[Ahead].txt])
                /\ Consumed(Cur) = Ahead
           ELSE /\ fault = "panic"
                /\ res.k = "Fault"
    /\ fault = "none" =>
           \A i \in 1..Consumed(Cur) : IsRun(T[i]) => Accepted(T[i].txt)

\* -.5 is returned as a Float, sign and point kept
C26_Witness ==
    /\ Called("next_item")
    /\ Ahead # 0
    /\ T[Ahead].ty = "Run"
    /\ res = Res("Ok", [ty |-> "Float", txt |-> <<"-", ".", "5">>])
    /\ Len(stack) >= 2

\* 1. raises the fault
C26_WitnessRejected ==
    /\ Called("next_item")
    /\ Ahead # 0
    /\ T[Ahead].txt = <<"1", ".">>
    /\ fault = "panic"

-----------------------------------------------------------------------------
(* C24: when the string extractor meets a backslash it copies both the     *)
(* backslash and the byte after it verbatim into the token text (the bytes *)
(* backslash, quote of the input are those two bytes of the output), and   *)
(* the byte after the backslash never terminates the string.               *)

HasEscape(t) == t.ty = "Str" /\ \E i \in 1..Len(t.txt) : t.txt[i] = "\\"

RECURSIVE Unescaped(_)
\* a text without its backslashes, the byte after each kept as it is
Unescaped(txt) ==
    IF txt = <<>> THEN <<>>
    ELSE IF txt[1] = "\\" /\ Len(txt) >= 2
         THEN <<txt[2]>> \o Unescaped(SubSeq(txt, 3, Len(txt)))
    ELSE <<txt[1]>> \o Unescaped(Tail(txt))

BeforeEscape == Called("next_item") /\ Ahead # 0 /\ HasEscape(T[Ahead])

\* as claimed: the token has the bytes between the quotes as written
C24_EscapeCopiedVerbatim ==
    BeforeEscape =>
        /\ fault = "none"
        /\ res = Res("Ok", [ty |-> "Str", txt |-> T[Ahead].txt])
        /\ Consumed(Cur) = Ahead

\* as the code has it: the backslash is left out, the byte after it is
\* copied as it is and does not end the string
C24_EscapeDropsBackslash ==
    BeforeEscape =>
        /\ fault = "none"
        /\ res = Res("Ok", [ty |-> "Str", txt |-> Unescaped(T[Ahead].txt)])
        /\ Consumed(Cur) = Ahead

\* "a\"b" in an array is returned as a"b, the whole token consumed
C24_Witness ==
    /\ BeforeEscape
    /\ T[Ahead].txt = <<"a", "\\", "\"", "b">>
    /\ res = Res("Ok", [ty |-> "Str", txt |-> <<"a", "\"", "b">>])
    /\ next_byte = "]"

-----------------------------------------------------------------------------
(* C25: a string token without a backslash, key or value, has as its raw   *)
(* text exactly the bytes between its opening and its closing quote,       *)
(* whitespace right after the opening quote included.                      *)

IsPlainString(t) == IsItem(t) /\ t.ty = "Str" /\ ~HasEscape(t)

\* the bytes of the input between the quotes of a string token
Between(t) == SubSeq(bytes, t.start + 2, t.start + 1 + Len(t.txt))

C25_StringTextBetweenQuotes ==
    (Called("next_item") /\ Ahead # 0 /\ IsPlainString(T[Ahead])) =>
        /\ fault = "none"
        /\ res.k = "Ok"
        /\ res.v.ty = "Str"
        /\ res.v.txt = T[Ahead].txt
        /\ res.v.txt = Between(T[Ahead])
        /\ Consumed(Cur) = Ahead

-----------------------------------------------------------------------------
(* C23: when a string is opened and the input ends before its closing      *)
(* quote, the string extractor ends with the fatal fault at every nesting  *)
(* depth, a top-level string and a string directly inside the outermost    *)
(* container included; it never loops without end and never returns a      *)
(* token for the string.                                                   *)

IsUnterminated(t) == t.ty = "Open"

C23_UnterminatedStringIsFatal ==
    (\E i \in 1..Len(T) : IsUnterminated(T[i])) =>
        /\ fault # "hang"
        /\ (Called("next_item") /\ Ahead # 0 /\ IsUnterminated(T[Ahead])) =>
               fault = "panic" /\ res.k = "Fault"
        /\ fault = "none" =>
               \A i \in 1..Consumed(Cur) : ~IsUnterminated(T[i])

\* two containers deep the extractor does end with the fault
C23_FaultWhenNested ==
    /\ Called("next_item")
    /\ Ahead # 0
    /\ IsUnterminated(T[Ahead])
    /\ fault = "panic"

-----------------------------------------------------------------------------
(* C21: once the top-level value of the document is complete, any further  *)
(* byte that is not whitespace makes the next step of the automaton raise  *)
(* the fatal fault, so nothing of the further input is ever read without   *)
(* it; whitespace alone after the document raises no fault.                *)

IsExtra(t) == t.role = "extra"

HasExtra == Len(T) >= 1 /\ IsExtra(T[Len(T)])

\* a text of SpecEdge that is a well-formed document
Sound ==
    \A i \in 1..Len(T) :
        /\ ~IsExtra(T[i])
        /\ T[i].ty \notin {"Open", "Trailing", "Split", "Wrong"}
        /\ IsRun(T[i]) => Accepted(T[i].txt)

C21_InputAfterDocumentIsFatal ==
    /\ HasExtra =>
           /\ fault = "none" => Consumed(Cur) < Len(T)
           /\ (Called("next_item") /\ pre.stack = <<>>) =>
                  fault = "panic" /\ res.k = "Fault"
    /\ (Sound /\ ws >= 1 /\ Called("next_item") /\ pre.stack = <<>>) =>
           fault = "none" /\ res.k = "EOS"

\* the same without the texts in which a number follows a number
C21_ExceptNumberAfterNumber ==
    (HasExtra /\ T[Len(T) - 1].ty = "Int" /\ T[Len(T)].txt = <<"2">>)
    \/ C21_InputAfterDocumentIsFatal

\* a document followed by a comma: the step after the document raises the fault
C21_FaultAfterDocument ==
    /\ HasExtra
    /\ Called("next_item")
    /\ pre.stack = <<>>
    /\ pre.next_byte = ","
    /\ fault = "panic"

\* whitespace after the document: end of stream without a fault
C21_TrailingWhitespace ==
    /\ Sound
    /\ ws >= 1
    /\ Called("next_item")
    /\ pre.stack = <<>>
    /\ res.k = "EOS"
    /\ fault = "none"

-----------------------------------------------------------------------------
(* C22: a comma directly followed by the closing delimiter of its          *)
(* container, as in [1,] and {"a":1,}, raises the fatal fault: the closing *)
(* delimiter after it is never read without a fault, and the text is never *)
(* walked to its end as a container with one member.                       *)

IsTrailing(t) == t.ty = "Trailing"

TrailingAt == FirstAfter(0, IsTrailing)

C22_TrailingCommaIsFatal ==
    TrailingAt # 0 =>
        /\ fault = "none" => Consumed(Cur) <= TrailingAt
        /\ res.k # "EOS"

\* the same for arrays only
C22_TrailingCommaInArray ==
    (TrailingAt # 0 /\ T[TrailingAt + 1].txt = <<"]">>) =>
        (fault = "none" => Consumed(Cur) <= TrailingAt)

\* the same for objects only
C22_TrailingCommaInObject ==
    (TrailingAt # 0 /\ T[TrailingAt + 1].txt = <<"}">>) =>
        (fault = "none" => Consumed(Cur) <= TrailingAt)

-----------------------------------------------------------------------------
(* C31: seek_by_level_offset(offset) called where the level of the top     *)
(* frame plus offset is below 1 returns false and takes no step of the     *)
(* automaton: lookahead, position and stack are as before the call.        *)

TopLevel(p) == p.stack[Len(p.stack)].level

BelowFirstLevel ==
    /\ Called("seek_by_level_offset")
    /\ pre.stack # <<>>
    /\ TopLevel(pre) + call.arg < 2

-----------------------------------------------------------------------------
(* C32: at every level of the top frame, the half-integer levels of a      *)
(* pending-value frame included, next_child_key seeks with the offset      *)
(* ceil(level + 1) - level and next_key_from_parent with the offset        *)
(* floor(level - 1) - level.                                               *)

\* levels are in half units: the whole levels are the even numbers
Whole == {2 * n : n \in -2..8}

Floor(l) == CHOOSE n \in Whole : n <= l /\ l < n + 2

Ceil(l) == CHOOSE n \in Whole : n - 2 < l /\ l <= n

\* the call was made with input left and a frame on the stack
Seeking(op) == Called(op) /\ pre.next_byte # NIL /\ pre.stack # <<>>

Outcome == Ret(Cur, res)

\* as claimed: child by ceil, parent by floor
C32_ChildCeilParentFloor ==
    /\ Seeking("next_child_key") =>
           Outcome = key_by_diff(pre, Ceil(TopLevel(pre) + 2) - TopLevel(pre))
    /\ Seeking("next_key_from_parent") =>
           Outcome = key_by_diff(pre, Floor(TopLevel(pre) - 2) - TopLevel(pre))

\* as the code has it: child by floor, parent by ceil
C32_ChildFloorParentCeil ==
    /\ Seeking("next_child_key") =>
           Outcome = key_by_diff(pre, Floor(TopLevel(pre) + 2) - TopLevel(pre))
    /\ Seeking("next_key_from_parent") =>
           Outcome = key_by_diff(pre, Ceil(TopLevel(pre) - 2) - TopLevel(pre))

\* from a pending-value frame next_child_key finds a key of the object that
\* is the value, half a level on, where the offset by ceil finds none
C32_Witness ==
    /\ Seeking("next_child_key")
    /\ TopLevel(pre) % 2 = 1
    /\ res.k = "Ok"
    /\ TopLevel(Cur) = TopLevel(pre) + 1
    /\ Outcome # key_by_diff(pre, Ceil(TopLevel(pre) + 2) - TopLevel(pre))

\* from a pending-value frame next_key_from_parent seeks half a level back
C32_WitnessParent ==
    /\ Seeking("next_key_from_parent")
    /\ TopLevel(pre) % 2 = 1
    /\ res.k = "Ok"
    /\ Outcome # key_by_diff(pre, Floor(TopLevel(pre) - 2) - TopLevel(pre))

-----------------------------------------------------------------------------
(* C33: after construction and after every step of the automaton, be it a  *)
(* structural marker, a string or a word, the lookahead is never an ASCII  *)
(* whitespace byte: it is the next byte of the input that is not           *)
(* whitespace, the first byte of the next token, or the end sentinel.      *)

C33_LookaheadNeverWhitespace ==
    fault = "none" =>
        /\ ~is_ascii_whitespace(next_byte)
        /\ IF next_byte = NIL
           THEN Consumed(Cur) = Len(T)
           ELSE /\ next_byte = bytes[pos]
                /\ Consumed(Cur) < Len(T)
                /\ T[Consumed(Cur) + 1].start = pos - 1

\* a string was read and the blank after it passed over
C33_Witness ==
    /\ ws >= 1
    /\ Called("next_item")
    /\ res.k = "Ok"
    /\ res.v.ty = "Str"
    /\ next_byte # NIL
    /\ is_ascii_whitespace(bytes[pos - 1])
    /\ ~is_ascii_whitespace(next_byte)

\* a structural marker was passed and the blank after it passed over
C33_WitnessMarker ==
    /\ ws >= 1
    /\ Called("seek_by_level_offset")
    /\ Consumed(Cur) >= 1
    /\ Returned.role \in {"open", "colon", "comma", "close"}
    /\ next_byte # NIL
    /\ is_ascii_whitespace(bytes[pos - 1])

-----------------------------------------------------------------------------
(* C35: no number and no keyword spans whitespace: where whitespace        *)
(* separates two runs of digits, as in [1 2], or follows the first byte of *)
(* a keyword, as in n ull, the walker raises the fatal fault and never     *)
(* returns the merged token 12 or null.                                    *)

IsSplit(t) == t.ty = "Split"

SplitAt == FirstAfter(0, IsSplit)

NotBlank(c) == ~is_ascii_whitespace(c)

\* the token with its whitespace left out
Merged(txt) == SelectSeq(txt, NotBlank)

\* the text is not read past the split token without the fault, and the
\* merged token is not returned
FatalAtSplit ==
    /\ fault = "none" => Consumed(Cur) <= SplitAt
    /\ res.k = "Ok" => res.v.txt # Merged(T[SplitAt].txt)

C35_NoTokenSpansWhitespace == SplitAt # 0 => FatalAtSplit

\* the same for the texts with the blank after the second byte only: in
\* 12 3 and nu ll the fault is raised
C35_BlankAfterSecondByte ==
    (SplitAt # 0 /\ T[SplitAt].txt[3] = " ") => FatalAtSplit

\* 12 is read from 12 3 and the step after it raises the fault
C35_FaultAfterSecondRun ==
    /\ SplitAt # 0
    /\ T[SplitAt].txt = <<"1", "2", " ", "3">>
    /\ Called("next_item")
    /\ pre.next_byte = "3"
    /\ fault = "panic"

-----------------------------------------------------------------------------
(* C36: a closing delimiter pops a frame only when it is of the kind of    *)
(* the innermost open container: '}' met in an array, ']' met in an object *)
(* and either of them met where the value of a member is expected raise    *)
(* the fatal fault and pop nothing.                                        *)

IsWrong(t) == t.ty = "Wrong"

WrongAt == FirstAfter(0, IsWrong)

\* next_item() was called with the wrong delimiter as the lookahead
AtWrongDelimiter ==
    /\ WrongAt # 0
    /\ Called("next_item")
    /\ Consumed(pre) = WrongAt - 1
    /\ pre.next_byte = T[WrongAt].txt[1]

C36_WrongClosingDelimiterIsFatal ==
    WrongAt # 0 =>
        /\ fault = "none" => Consumed(Cur) < WrongAt
        /\ AtWrongDelimiter => fault = "panic" /\ stack = pre.stack

\* '}' after the element of an array
C36_Witness ==
    /\ AtWrongDelimiter
    /\ pre.next_byte = "}"
    /\ pre.stack[Len(pre.stack)].symbol = "["
    /\ pre.stack[Len(pre.stack)].next_executor = "open_square_after_single_value_state"
    /\ fault = "panic"
    /\ stack = pre.stack

\* ']' after the member of an object
C36_WitnessObject ==
    /\ AtWrongDelimiter
    /\ pre.next_byte = "]"
    /\ pre.stack[Len(pre.stack)].symbol = "{"
    /\ fault = "panic"
    /\ stack = pre.stack

\* a closing delimiter right after the colon
C36_WitnessPendingValue ==
    /\ AtWrongDelimiter
    /\ pre.stack[Len(pre.stack)].symbol = ":"
    /\ Len(pre.stack) >= 3
    /\ fault = "panic"
    /\ stack = pre.stack

-----------------------------------------------------------------------------
(* C37: end of stream is absorbing: once a well-formed document has been   *)
(* consumed to its end, each of next_item, next_key, next_key_by_name,     *)
(* next_sibling_key, next_child_key, next_key_from_parent,                 *)
(* next_item_by_level, next_item_by_pattern, current_value_content and     *)
(* seek_by_level_offset returns end of stream (false for                   *)
(* seek_by_level_offset), raises no fault and leaves stack and lookahead   *)
(* as they are.                                                            *)

Queries ==
    {"next_item", "next_key", "next_key_by_name", "next_sibling_key",
     "next_child_key", "next_key_from_parent", "next_item_by_level",
     "next_item_by_pattern", "current_value_content"}

\* the call was made with the whole document consumed
AfterTheEnd == pre.next_byte = NIL /\ Consumed(pre) = Len(T)

Absorbed(r) == fault = "none" /\ res = r /\ Cur = pre

C37_EndOfStreamIsAbsorbing ==
    AfterTheEnd =>
        /\ call.op \in Queries => Absorbed(EOS)
        /\ Called("seek_by_level_offset") => Absorbed(Res("Bool", FALSE))

\* the same without seek_by_level_offset
C37_QueriesAbsorbed ==
    (AfterTheEnd /\ call.op \in Queries) => Absorbed(EOS)

\* current_value_content called after the end of a document
C37_QueriesMadeAfterTheEnd ==
    /\ AfterTheEnd
    /\ Called("current_value_content")
    /\ Absorbed(EOS)
    /\ Len(T) >= 3

-----------------------------------------------------------------------------
(* C38: for an object in which one key is written more than once, the      *)
(* mapping that current_value_content returns has one entry for that key,  *)
(* and its value is that of the last member written under the key; all     *)
(* members of the object are consumed from the input all the same.         *)

\* the node current_value_content() was called in front of: the document,
\* or the value of the key just consumed
Asked == IF pre = new THEN <<>> ELSE KeyPath(pre)

ContentAsked == Called("current_value_content") /\ (pre = new \/ AfterKey(pre))

\* the members of object n written under key
Under(n, key) == {i \in 1..Len(n.el) : n.el[i].key = key}

Latest(S) == CHOOSE i \in S : \A j \in S : j <= i

HasRepeatedKey(n) ==
    n.k = "O" /\ \E i, j \in 1..Len(n.el) : i < j /\ n.el[i].key = n.el[j].key

C38_RepeatedKeyLastValueKept ==
    (ContentAsked /\ HasRepeatedKey(NodeAt(doc, Asked))) =>
        LET n == NodeAt(doc, Asked)
        IN /\ res.k = "Content"
           /\ res.v.c = "Object"
           /\ DOMAIN res.v.v = {n.el[i].key : i \in 1..Len(n.el)}
           /\ \A key \in DOMAIN res.v.v :
                  Represents(res.v.v[key], n.el[Latest(Under(n, key))].val)
           /\ Consumed(Cur) = EndOf(Asked)

\* {"a":1,"a":"a"} gives the one entry a with the string
C38_Witness ==
    /\ ContentAsked
    /\ HasRepeatedKey(NodeAt(doc, Asked))
    /\ NodeAt(doc, Asked).el[1].val # NodeAt(doc, Asked).el[2].val
    /\ NodeAt(doc, Asked).el[1].key = NodeAt(doc, Asked).el[2].key
    /\ Len(NodeAt(doc, Asked).el) = 2
    /\ res.k = "Content"
    /\ res.v = Object([x \in {A_} |-> Simple(Str(A_))])

-----------------------------------------------------------------------------
(* C39: in every reachable state with a stack that is not empty the bottom *)
(* frame is the root pending-value frame, every other pending-value frame  *)
(* sits directly on an object frame, every object frame sits directly on a *)
(* pending-value frame or an array frame and every array frame sits        *)
(* directly on a pending-value frame or an array frame; so the stack is    *)
(* never longer than twice the number of open containers plus 1.           *)

\* the containers opened and not yet closed in the part of the text consumed
OpenContainers ==
    Cardinality({i \in 1..Consumed(Cur) : T[i].role = "open"})
        - Cardinality({i \in 1..Consumed(Cur) : T[i].role = "close"})

C39_StackShape ==
    Len(stack) >= 1 =>
        /\ IsRoot(stack[1])
        /\ \A i \in 2..Len(stack) :
               /\ stack[i].symbol = ":" => stack[i - 1].symbol = "{"
               /\ stack[i].symbol = "{" => stack[i - 1].symbol \in {":", "["}
               /\ stack[i].symbol = "[" => stack[i - 1].symbol \in {":", "["}
        /\ Len(stack) <= 2 * Cardinality({i \in 1..Len(stack) : IsContainer(stack[i])}) + 1
        /\ fault = "none" => Len(stack) <= 2 * OpenContainers + 1

\* object on array, array on a pending value, the value of a member pending
C39_Witness ==
    /\ fault = "none"
    /\ Len(stack) = 6
    /\ stack[2].symbol = "{"
    /\ stack[3].symbol = ":"
    /\ stack[4].symbol = "["
    /\ stack[5].symbol = "{"
    /\ stack[6].symbol = ":"
    /\ OpenContainers = 3

-----------------------------------------------------------------------------
(* C40: next_item_by_pattern with a list of predicates that is not empty   *)
(* raises no fault on a well-formed document, whatever the predicates      *)
(* return; on a document that is one scalar, with no container around it   *)
(* to match, it returns end of stream.                                     *)

C40_ByPatternNeverFaults ==
    Called("next_item_by_pattern") =>
        /\ fault = "none"
        /\ res.k \in {"Ok", "EOS"}
        /\ doc.k = "S" => res = EOS /\ Consumed(Cur) = Len(T)

\* the same for the documents that are an array or an object
C40_ByPatternInContainers ==
    (Called("next_item_by_pattern") /\ doc.k # "S") =>
        /\ fault = "none"
        /\ res.k \in {"Ok", "EOS"}

\* a search that ends with end of stream at the end of a document
C40_SearchToTheEnd ==
    /\ Called("next_item_by_pattern")
    /\ doc.k # "S"
    /\ pre.next_byte # NIL
    /\ res = EOS
    /\ Consumed(Cur) = Len(T)

-----------------------------------------------------------------------------
(* C34: an accessor of a sequence or of a mapping records the level of the *)
(* top frame at the moment its scope is opened.  It reports 'no more       *)
(* elements' exactly when the lookahead is a closing delimiter and the     *)
(* level of the top frame is the recorded level, and consumes that         *)
(* delimiter; when at a closing delimiter the level of the top frame is    *)
(* below the recorded level it returns the internal-consistency error      *)
(* (kind OOPS) and no element.                                             *)

IsClosing(c) == c \in {"]", "}"}

Opened == call.op \in {"SeqAccessor_new", "MapAccessor_new"} /\ fault = "none"

\* the delimiter the accessor looks for
Desired == IF Called("SeqAccessor_new") THEN <<"[">> ELSE <<"{">>

Asking == Called("handle_next_element_seed")

\* the call consumed one token, a closing delimiter, and no more
ClosedOne ==
    /\ Consumed(Cur) = Consumed(pre) + 1
    /\ Returned.role = "close"
    /\ Len(stack) = Len(pre.stack) - 1 \/ Len(stack) = Len(pre.stack) - 2

C34_AccessorEndsAtRecordedLevel ==
    /\ Opened =>
           /\ res.k = "Scope"
           /\ res.v.level = get_current_level(Cur)
           /\ (Consumed(Cur) > Consumed(pre) /\ Returned.txt = Desired) =>
                  res.v.level = Returned.lvl + 2
    /\ (Asking /\ IsClosing(pre.next_byte)
            /\ get_current_level(pre) = call.arg.level) =>
           /\ fault = "none"
           /\ res.v.out = "None"
           /\ ClosedOne
    /\ (Asking /\ IsClosing(pre.next_byte)
            /\ get_current_level(pre) < call.arg.level) =>
           /\ fault = "none"
           /\ res.v.out = "OOPS"
           /\ Cur = pre
    /\ (Asking /\ fault = "none" /\ res.v.out = "None") =>
           /\ IsClosing(pre.next_byte)
           /\ get_current_level(pre) >= call.arg.level
           /\ Returned.role = "close"
           /\ Returned.lvl + 2 = call.arg.level
    /\ (Asking /\ fault = "none") => res.v.level = call.arg.level

\* an element of an array inside an array has been read, and at its ']' the
\* accessor opened on it reports the end and consumes the ']'
C34_Witness ==
    /\ Asking
    /\ call.arg.level = 4
    /\ pre.next_byte = "]"
    /\ get_current_level(pre) = 4
    /\ T[Consumed(pre)].role = "value"
    /\ res.v.out = "None"
    /\ ClosedOne
    /\ get_current_level(Cur) = 2

\* the closing delimiters of deeper containers are passed over first
C34_WitnessDeeper ==
    /\ Asking
    /\ IsClosing(pre.next_byte)
    /\ get_current_level(pre) > call.arg.level
    /\ fault = "none"
    /\ res.v.out = "None"

\* the cursor has left the container of the accessor
C34_WitnessOops ==
    /\ Asking
    /\ IsClosing(pre.next_byte)
    /\ get_current_level(pre) < call.arg.level
    /\ res.v.out = "OOPS"
    /\ Cur = pre

====
